---- MODULE Spec2Model ----
(***************************************************************************)
(* Verification model of the text-reconstruction pipeline of the chat      *)
(* client: the thinking-tag parser and the output sanitizer                *)
(* (utils/textSanitizer.ts), the chat hook that drives them                *)
(* (hooks/useLLMChat.ts), the prompt builder (services/llm/prompts), the   *)
(* title generator (services/llm/titleGenerator.ts) and the Markdown       *)
(* parser (utils/markdownParser).                                          *)
(*                                                                         *)
(* A text is a sequence of one-character strings, so that the regular      *)
(* expressions of the source are evaluated character by character.         *)
(* Offsets are 0-based as in the source; substring(t, a, b) is JavaScript's *)
(* t.substring(a, b).                                                      *)
(***************************************************************************)
EXTENDS Integers, Sequences, FiniteSets, TLC

VARIABLES
  \* -- thinking parser driven by a growing stream (SpecThinking)
  streamAtoms,   \* the atoms (delimiters, plain fragments) received so far
  text,          \* the accumulated text handed to parseThinkingResponse
  parsed,        \* parseThinkingResponse(text)
  prevParsed,    \* the ParsedResponse of the previous, shorter prefix
  stripped,      \* stripThinkingTags(text)
  extracted,     \* extractThinking(text)
  \* -- sanitizer driven by RichText (SpecSanitizer)
  raw,           \* RichText's children: the raw model output
  rawChunks,     \* number of chunks appended to raw
  clean,         \* sanitizeModelOutput(raw)
  \* -- the chat hook useLLMChat (Spec)
  messages,            \* React state: the message list
  messagesRef,         \* messagesRef.current, synced to messages by an effect
  isGenerating,        \* React state
  streamingContent,    \* React state
  error,               \* React state
  renderedIsGenerating,\* isGenerating as captured by the sendMessage callback
                       \* of the latest render
  pc,                  \* where each sendMessage call stands
  local,               \* the local variables of each sendMessage call
  db,                  \* the messages saved by databaseService.saveMessage
  llmReady,            \* llmService.isReady()
  titleRuns,           \* autoGenerateTitle runs started (not awaited)
  \* -- the prompt builder buildPrompt (SpecPrompt)
  history,       \* the messages handed to buildPrompt
  options,       \* the PromptOptions of the last call
  prompt,        \* the prompt the last call returned
  \* -- the title generator generateChatTitle (SpecTitle)
  titleMessages, \* the messages handed to generateChatTitle
  titlePc,       \* where the generateChatTitle call stands
  titleResult,   \* the value the promise resolved to
  titleOutcome,  \* how the call ended
  generateCalls, \* calls of llmService.generate made by generateChatTitle
  \* -- the Markdown parser parseMarkdown (SpecMarkdown)
  mdLines,       \* the lines of the document, each a sequence of atoms
  tokens,        \* parseMarkdown of the document, once it has returned
  mdI,           \* parseMarkdown's line index i, from 1; 0 outside the loop
  mdPrevI,       \* the line index at the start of the last iteration
  mdTokens,      \* parseMarkdown's local token array
  \* -- the title runs autoGenerateTitle (SpecAutoTitle)
  convTitle,     \* conversations.title of the conversation
  convMessages,  \* the messages saved for the conversation
  runPc,         \* where each autoGenerateTitle run stands
  runMessages,   \* the messages each run read
  runTitle,      \* the title each run generated
  \* -- the download service ModelDownloadService (SpecDownload)
  downloadHandles, \* the Map: per model id the call whose handle is stored,
                   \* 0 when the id has no entry
  dlPc,            \* where each downloadModel call stands
  dlModel,         \* model.id of each downloadModel call
  dlCancelled,     \* whether the call's handle had its cancelAsync settle
  cancelPc,        \* where the cancelDownload call stands
  cancelModel,     \* modelId of the cancelDownload call
  cancelHandle,    \* the handle the cancelDownload call got
  cancelAllPc,     \* where the cancelAllDownloads call stands
  cancelAllIds,    \* the model ids its loop still has to visit
  cancelAllHandle, \* the handle its loop is cancelling
  \* -- the model registry ModelRegistry over the models table (SpecRegistry)
  regModels,     \* the models table: per id a row, or NoRow
  regPc,         \* where each registry operation stands
  regArgs,       \* the arguments and locals of each operation
  regResult,     \* how the last operation of each slot ended
  regOverlap     \* whether another operation ran a statement meanwhile

thinkVars == <<streamAtoms, text, parsed, prevParsed, stripped, extracted>>
sanVars == <<raw, rawChunks, clean>>
chatVars == <<messages, messagesRef, isGenerating, streamingContent, error,
              renderedIsGenerating, pc, local, db, llmReady, titleRuns>>
promptVars == <<history, options, prompt>>
titleVars == <<titleMessages, titlePc, titleResult, titleOutcome, generateCalls>>
mdVars == <<mdLines, tokens, mdI, mdPrevI, mdTokens>>
autoVars == <<convTitle, convMessages, runPc, runMessages, runTitle>>
dlVars == <<downloadHandles, dlPc, dlModel, dlCancelled, cancelPc, cancelModel,
            cancelHandle, cancelAllPc, cancelAllIds, cancelAllHandle>>
regVars == <<regModels, regPc, regArgs, regResult, regOverlap>>
\* the services behind the screens
svcVars == <<autoVars, dlVars, regVars>>
\* the pure functions and services run outside the chat hook
toolVars == <<promptVars, titleVars, mdVars, svcVars>>
vars == <<thinkVars, sanVars, chatVars, toolVars>>

----------------------------------------------------------------------------
(* Bounds of the model *)

\* chunks appended to the stream of the thinking parser
MaxChunks == 4
\* chunks appended to the raw text the sanitizer sees
MaxRawChunks == 3
\* sendMessage calls made on the hook
MaxCalls == 2
\* messages in the history handed to buildPrompt
MaxHistory == 3
\* largest maxMessages option handed to buildPrompt
MaxMessagesOption == 2
\* messages handed to generateChatTitle
MaxTitleMessages == 2
\* lines of the document handed to parseMarkdown
MaxLines == 3
\* autoGenerateTitle runs started for the conversation
MaxRuns == 2
\* downloadModel calls made on the download service
MaxDownloads == 2
\* registry operations that may be under way at once
MaxRegOps == 2

----------------------------------------------------------------------------
(* Characters and JavaScript string primitives *)

LowerLetters ==
  {"a","b","c","d","e","f","g","h","i","j","k","l","m",
   "n","o","p","q","r","s","t","u","v","w","x","y","z"}

UpperLetters ==
  {"A","B","C","D","E","F","G","H","I","J","K","L","M",
   "N","O","P","Q","R","S","T","U","V","W","X","Y","Z"}

Digits == {"0","1","2","3","4","5","6","7","8","9"}

\* String.prototype.toLowerCase on one character (the "i" flag of a regex)
Lower(c) ==
  CASE c = "A" -> "a" [] c = "B" -> "b" [] c = "C" -> "c" [] c = "D" -> "d"
    [] c = "E" -> "e" [] c = "F" -> "f" [] c = "G" -> "g" [] c = "H" -> "h"
    [] c = "I" -> "i" [] c = "J" -> "j" [] c = "K" -> "k" [] c = "L" -> "l"
    [] c = "M" -> "m" [] c = "N" -> "n" [] c = "O" -> "o" [] c = "P" -> "p"
    [] c = "Q" -> "q" [] c = "R" -> "r" [] c = "S" -> "s" [] c = "T" -> "t"
    [] c = "U" -> "u" [] c = "V" -> "v" [] c = "W" -> "w" [] c = "X" -> "x"
    [] c = "Y" -> "y" [] c = "Z" -> "z" [] OTHER -> c

\* the character U+0060, which a string of this language cannot hold
BACKTICK == "U+0060"

\* \s of a regex, and the characters String.prototype.trim removes
IsSpace(c) == c \in {" ", "\n", "\t", "\r"}

\* the line terminators after which ^ matches under the "m" flag
IsLineTerminator(c) == c \in {"\n", "\r"}

\* \w of a regex
IsWordChar(c) == c \in LowerLetters \cup UpperLetters \cup Digits \cup {"_"}

Min(S) == CHOOSE x \in S : \A y \in S : x <= y

Max(S) == CHOOSE x \in S : \A y \in S : y <= x

\* t.substring(a, b), 0-based, b exclusive and clamped to the length
substring(t, a, b) == SubSeq(t, a + 1, IF b < Len(t) THEN b ELSE Len(t))

\* the literal lit stands at offset i of t, compared case-insensitively
MatchesAtCI(t, i, lit) ==
  /\ i >= 0
  /\ i + Len(lit) <= Len(t)
  /\ \A k \in 1..Len(lit) : Lower(t[i + k]) = Lower(lit[k])

\* the literal lit stands at offset i of t, compared exactly
MatchesAt(t, i, lit) ==
  /\ i >= 0
  /\ i + Len(lit) <= Len(t)
  /\ \A k \in 1..Len(lit) : t[i + k] = lit[k]

\* offset of the first case-insensitive occurrence of lit at or after from, or -1
indexOfCI(t, lit, from) ==
  LET S == {i \in from..(Len(t) - Len(lit)) : MatchesAtCI(t, i, lit)}
  IN  IF S = {} THEN -1 ELSE Min(S)

\* String.prototype.includes: exact, case-sensitive
includes(t, lit) == \E i \in 0..(Len(t) - Len(lit)) : MatchesAt(t, i, lit)

\* String.prototype.trim
trim(t) ==
  LET keep == {i \in 1..Len(t) : ~IsSpace(t[i])}
  IN  IF keep = {} THEN <<>>
      ELSE SubSeq(t, Min(keep), CHOOSE x \in keep : \A y \in keep : y <= x)

\* Array.prototype.join
RECURSIVE join(_, _)
join(parts, sep) ==
  IF Len(parts) = 0 THEN <<>>
  ELSE IF Len(parts) = 1 THEN parts[1]
  ELSE parts[1] \o sep \o join(Tail(parts), sep)

IsPrefix(p, s) == Len(p) <= Len(s) /\ SubSeq(s, 1, Len(p)) = p

IsSuffix(p, s) == Len(p) <= Len(s) /\ SubSeq(s, Len(s) - Len(p) + 1, Len(s)) = p

----------------------------------------------------------------------------
(* Thinking tag parser: utils/textSanitizer.ts, lines 80-166 *)

THINK_OPEN == <<"<","t","h","i","n","k",">">>
THINK_CLOSE == <<"<","/","t","h","i","n","k",">">>
BLANK_LINE == <<"\n","\n">>

NoMatch == [index |-> -1, m0 |-> <<>>, m1 |-> <<>>]

\* thinkRegexExec with the "|$" alternative left out of the regex: an opening
\* tag without a closing tag matches nothing
thinkRegexExecNoEnd(t, lastIndex) ==
  LET i == indexOfCI(t, THINK_OPEN, lastIndex)
      j == indexOfCI(t, THINK_CLOSE, i + Len(THINK_OPEN))
  IN  IF i = -1 \/ j = -1 THEN NoMatch
      ELSE [index |-> i,
            m0 |-> substring(t, i, j + Len(THINK_CLOSE)),
            m1 |-> substring(t, i + Len(THINK_OPEN), j)]

\* /<think>([\s\S]*?)(?:<\/think>|$)/gi .exec(text) with the regex's lastIndex:
\* the leftmost opening tag, its lazy body up to the first closing tag or,
\* failing that, up to the end of the string
thinkRegexExec(t, lastIndex) ==
  LET i == indexOfCI(t, THINK_OPEN, lastIndex)
      j == indexOfCI(t, THINK_CLOSE, i + Len(THINK_OPEN))
      bodyEnd == IF j = -1 THEN Len(t) ELSE j
      matchEnd == IF j = -1 THEN Len(t) ELSE j + Len(THINK_CLOSE)
  IN  IF i = -1 THEN NoMatch
      ELSE [index |-> i,
            m0 |-> substring(t, i, matchEnd),
            m1 |-> substring(t, i + Len(THINK_OPEN), bodyEnd)]

\* the while loop of parseThinkingResponse and the code after it
RECURSIVE thinkLoop(_, _, _, _, _)
thinkLoop(t, lastIndex, mainResponse, thinkingSections, isThinking) ==
  LET match == thinkRegexExec(t, lastIndex)
      thinkingContent == trim(match.m1)
  IN  IF match.index = -1
      THEN [mainResponse |-> IF lastIndex < Len(t)
                             THEN mainResponse \o substring(t, lastIndex, Len(t))
                             ELSE mainResponse,
            thinkingSections |-> thinkingSections,
            isThinking |-> isThinking]
      ELSE thinkLoop(
             t,
             match.index + Len(match.m0),
             IF match.index > lastIndex
             THEN mainResponse \o substring(t, lastIndex, match.index)
             ELSE mainResponse,
             IF thinkingContent # <<>>
             THEN Append(thinkingSections, thinkingContent)
             ELSE thinkingSections,
             IF ~includes(match.m0, THINK_CLOSE) THEN TRUE ELSE isThinking)

\* parseThinkingResponse joining the sections with one newline
parseThinkingResponseJoinNewline(t) ==
  LET r == thinkLoop(t, 0, <<>>, <<>>, FALSE)
  IN  [thinking |-> trim(join(r.thinkingSections, <<"\n">>)),
       mainResponse |-> trim(r.mainResponse),
       isThinking |-> r.isThinking,
       raw |-> t]

parseThinkingResponse(t) ==
  LET r == thinkLoop(t, 0, <<>>, <<>>, FALSE)
  IN  [thinking |-> trim(join(r.thinkingSections, BLANK_LINE)),
       mainResponse |-> trim(r.mainResponse),
       isThinking |-> r.isThinking,
       raw |-> t]

\* text.replace(/<think>[\s\S]*?<\/think>/gi, '')
RECURSIVE stripLoop(_, _)
stripLoop(t, from) ==
  LET i == indexOfCI(t, THINK_OPEN, from)
      j == IF i = -1 THEN -1 ELSE indexOfCI(t, THINK_CLOSE, i + Len(THINK_OPEN))
  IN  IF i = -1 \/ j = -1 THEN substring(t, from, Len(t))
      ELSE substring(t, from, i) \o stripLoop(t, j + Len(THINK_CLOSE))

\* stripThinkingTags without the final trim
stripThinkingTagsNoTrim(t) == stripLoop(t, 0)

stripThinkingTags(t) == trim(stripLoop(t, 0))

\* m.replace(/<\/?think>/gi, ''): every opening and closing tag is removed
RECURSIVE removeThinkTags(_, _)
removeThinkTags(t, i) ==
  IF i >= Len(t) THEN <<>>
  ELSE IF MatchesAtCI(t, i, THINK_OPEN)
       THEN removeThinkTags(t, i + Len(THINK_OPEN))
       ELSE IF MatchesAtCI(t, i, THINK_CLOSE)
            THEN removeThinkTags(t, i + Len(THINK_CLOSE))
            ELSE <<t[i + 1]>> \o removeThinkTags(t, i + 1)

\* text.match(/<think>([\s\S]*?)(?:<\/think>|$)/gi): all the matches, the
\* search resuming after each one
RECURSIVE thinkMatches(_, _)
thinkMatches(t, lastIndex) ==
  LET match == thinkRegexExec(t, lastIndex)
  IN  IF match.index = -1 THEN <<>>
      ELSE <<match.m0>> \o thinkMatches(t, match.index + Len(match.m0))

\* matches.map(m => m.replace(/<\/?think>/gi, '').trim()).join('\n\n'); the
\* join of no matches stands for the early return of ''
extractThinking(t) ==
  LET matches == thinkMatches(t, 0)
  IN  join([k \in 1..Len(matches) |-> trim(removeThinkTags(matches[k], 0))],
           BLANK_LINE)

----------------------------------------------------------------------------
(* Output sanitizer: utils/textSanitizer.ts, lines 9-78 *)

IM_START == <<"<","|","i","m","_","s","t","a","r","t","|",">">>
IM_END == <<"<","|","i","m","_","e","n","d","|",">">>
ENDOFTEXT == <<"<","|","e","n","d","o","f","t","e","x","t","|",">">>
START_OF_TURN == <<"<","s","t","a","r","t","_","o","f","_","t","u","r","n",">">>
END_OF_TURN == <<"<","e","n","d","_","o","f","_","t","u","r","n",">">>
EOS == <<"<","e","o","s",">">>
PAD == <<"<","|","p","a","d","|",">">>
SEP == <<"<","|","s","e","p","|",">">>
TOKEN_ASSISTANT == <<"<","|","a","s","s","i","s","t","a","n","t","|",">">>
TOKEN_USER == <<"<","|","u","s","e","r","|",">">>
TOKEN_SYSTEM == <<"<","|","s","y","s","t","e","m","|",">">>

CHAT_TOKENS ==
  <<IM_START, IM_END, ENDOFTEXT, START_OF_TURN, END_OF_TURN, EOS,
    PAD, SEP, TOKEN_ASSISTANT, TOKEN_USER, TOKEN_SYSTEM>>

\* the tag names of REASONING_TAG_RE
REASONING_TAGS ==
  { <<"a","n","a","l","y","s","i","s">>,
    <<"r","e","a","s","o","n","i","n","g">>,
    <<"r","e","f","l","e","c","t","i","o","n">>,
    <<"o","b","s","e","r","v","a","t","i","o","n">>,
    <<"s","t","e","p">>,
    <<"s","c","r","a","t","c","h","p","a","d">>,
    <<"i","n","t","e","r","n","a","l">>,
    <<"m","e","t","a">> }

\* the role names of ROLE_PREFIX_RE
ROLE_ASSISTANT == <<"a","s","s","i","s","t","a","n","t">>
ROLE_MODEL == <<"m","o","d","e","l">>
ROLE_USER == <<"u","s","e","r">>
ROLE_SYSTEM == <<"s","y","s","t","e","m">>
ROLES == {ROLE_ASSISTANT, ROLE_MODEL, ROLE_USER, ROLE_SYSTEM}

\* character at offset i of t (0-based), or "" past the end
charAt(t, i) == IF i >= 0 /\ i < Len(t) THEN t[i + 1] ELSE ""

\* offset of the first ">" at or after from, or -1
indexOfGt(t, from) ==
  LET S == {i \in from..(Len(t) - 1) : t[i + 1] = ">"}
  IN  IF S = {} THEN -1 ELSE Min(S)

\* \b after a tag name that ends at offset q (exclusive): the name ends in a
\* word character, so the next character must not be one
WordBoundaryAfter(t, q) == q = Len(t) \/ ~IsWordChar(charAt(t, q))

\* the offset after the run of characters satisfying \s that starts at p
skipSpaces(t, p) ==
  Min({q \in p..Len(t) : q = Len(t) \/ ~IsSpace(charAt(t, q))})

\* text.replace(CHAT_TOKEN_RE, ""): one left-to-right pass, flags "gi"
RECURSIVE removeChatTokens(_, _)
removeChatTokens(t, i) ==
  IF i >= Len(t) THEN <<>>
  ELSE LET hits == {k \in 1..Len(CHAT_TOKENS) : MatchesAtCI(t, i, CHAT_TOKENS[k])}
       IN  IF hits # {}
           THEN removeChatTokens(t, i + Len(CHAT_TOKENS[Min(hits)]))
           ELSE <<t[i + 1]>> \o removeChatTokens(t, i + 1)

\* end (exclusive) of a match of REASONING_TAG_RE
\*   /<\/?(analysis|...|meta)\b[^>]*>/gi  at offset i, or -1
reasoningTagEnd(t, i) ==
  LET p == IF charAt(t, i + 1) = "/" THEN i + 2 ELSE i + 1
      names == {n \in REASONING_TAGS :
                  MatchesAtCI(t, p, n) /\ WordBoundaryAfter(t, p + Len(n))}
      q == p + Len(CHOOSE n \in names : TRUE)
      gt == indexOfGt(t, q)
  IN  IF charAt(t, i) # "<" \/ names = {} \/ gt = -1 THEN -1 ELSE gt + 1

RECURSIVE removeReasoningTags(_, _)
removeReasoningTags(t, i) ==
  IF i >= Len(t) THEN <<>>
  ELSE LET e == reasoningTagEnd(t, i)
       IN  IF e # -1 THEN removeReasoningTags(t, e)
           ELSE <<t[i + 1]>> \o removeReasoningTags(t, i + 1)

\* end (exclusive) of a match of HTML_TAG_RE
\*   /<\/?[a-z][a-z0-9]*\b[^>]*>/gi  at offset i, or -1
htmlTagEnd(t, i) ==
  LET p == IF charAt(t, i + 1) = "/" THEN i + 2 ELSE i + 1
      \* the greedy run [a-z0-9]* after the first letter; a shorter run never
      \* ends at a word boundary, so backtracking finds no other match
      q == Min({k \in (p + 1)..Len(t) :
                  k = Len(t) \/ Lower(charAt(t, k)) \notin (LowerLetters \cup Digits)})
      gt == indexOfGt(t, q)
  IN  IF \/ charAt(t, i) # "<"
         \/ Lower(charAt(t, p)) \notin LowerLetters
         \/ ~WordBoundaryAfter(t, q)
         \/ gt = -1
      THEN -1 ELSE gt + 1

RECURSIVE removeHtmlTags(_, _)
removeHtmlTags(t, i) ==
  IF i >= Len(t) THEN <<>>
  ELSE LET e == htmlTagEnd(t, i)
       IN  IF e # -1 THEN removeHtmlTags(t, e)
           ELSE <<t[i + 1]>> \o removeHtmlTags(t, i + 1)

\* end (exclusive) of (assistant|model|user|system)\s*:\s* matched at offset i,
\* case-insensitively, or -1
rolePrefixEnd(t, i) ==
  LET names == {n \in ROLES : MatchesAtCI(t, i, n)}
      q == skipSpaces(t, i + Len(CHOOSE n \in names : TRUE))
  IN  IF names = {} \/ charAt(t, q) # ":" THEN -1 ELSE skipSpaces(t, q + 1)

\* the offsets where ^ of ROLE_PREFIX_RE matches: the regex carries the "m"
\* flag, so ^ matches at the start of the text and after every line terminator
LineStarts(t) == {i \in 0..Len(t) : i = 0 \/ IsLineTerminator(charAt(t, i - 1))}

\* text.replace(ROLE_PREFIX_RE, ""): no "g" flag, the first match only
removeRolePrefix(t) ==
  LET S == {i \in LineStarts(t) : rolePrefixEnd(t, i) # -1}
      i == Min(S)
  IN  IF S = {} THEN t
      ELSE substring(t, 0, i) \o substring(t, rolePrefixEnd(t, i), Len(t))

\* text.replace(/\n{3,}/g, "\n\n")
RECURSIVE collapseBlankLines(_, _)
collapseBlankLines(t, i) ==
  IF i >= Len(t) THEN <<>>
  ELSE LET e == Min({q \in i..Len(t) : charAt(t, q) # "\n"})
       IN  IF e - i >= 3 THEN <<"\n", "\n">> \o collapseBlankLines(t, e)
           ELSE <<t[i + 1]>> \o collapseBlankLines(t, i + 1)

\* steps 1-3 of the pipeline: chat tokens, reasoning tags, HTML tags
stripMarkup(t) ==
  removeHtmlTags(removeReasoningTags(removeChatTokens(t, 0), 0), 0)

sanitizeModelOutput(t) ==
  IF t = <<>> THEN <<>>
  ELSE trim(collapseBlankLines(removeRolePrefix(stripMarkup(t)), 0))

----------------------------------------------------------------------------
(* The parts of the state a specification does not drive stay as constructed *)

\* RichText before any text is rendered
SanitizerIdle ==
  /\ raw = <<>>
  /\ rawChunks = 0
  /\ clean = <<>>

Calls == 1..MaxCalls

\* the local variables of a sendMessage call that has not started
NoLocals ==
  [content |-> <<>>, previousMessages |-> <<>>, allMessages |-> <<>>,
   fullResponse |-> <<>>, gen |-> <<>>, assistantMessage |-> <<>>]

\* the hook after its first render (useLLMChat.ts, lines 20-29)
HookMounted ==
  /\ messages = <<>>
  /\ messagesRef = <<>>
  /\ isGenerating = FALSE
  /\ streamingContent = <<>>
  /\ error = "null"
  /\ renderedIsGenerating = FALSE
  /\ pc = [c \in Calls |-> "idle"]
  /\ local = [c \in Calls |-> NoLocals]
  /\ db = <<>>
  /\ titleRuns = 0

ChatIdle == HookMounted /\ llmReady = FALSE

\* buildPrompt before any call
PromptIdle ==
  /\ history = <<>>
  /\ options = <<>>
  /\ prompt = <<>>

\* generateChatTitle before any call
TitleIdle ==
  /\ titleMessages = <<>>
  /\ titlePc = "idle"
  /\ titleResult = <<>>
  /\ titleOutcome = "none"
  /\ generateCalls = 0

\* parseMarkdown before any call
MarkdownIdle ==
  /\ mdLines = <<>>
  /\ tokens = <<[type |-> "not parsed"]>>
  /\ mdI = 0
  /\ mdPrevI = 0
  /\ mdTokens = <<>>

Runs == 1..MaxRuns

\* autoGenerateTitle before any run
AutoTitleIdle ==
  /\ convTitle = <<>>
  /\ convMessages = <<>>
  /\ runPc = [r \in Runs |-> "idle"]
  /\ runMessages = [r \in Runs |-> <<>>]
  /\ runTitle = [r \in Runs |-> <<>>]

DlCalls == 1..MaxDownloads

\* the ids of DEFAULT_MODELS
DEFAULT_MODEL_IDS == <<"qwen3-0.6b-q4", "gemma-3-1b-q4">>

\* the id generateModelId gives the file of a custom model
CUSTOM_MODEL_ID == "custom-model"

ModelIds == {DEFAULT_MODEL_IDS[k] : k \in 1..Len(DEFAULT_MODEL_IDS)} \cup {CUSTOM_MODEL_ID}

\* the download service before any call
DownloadIdle ==
  /\ downloadHandles = [m \in ModelIds |-> 0]
  /\ dlPc = [c \in DlCalls |-> "idle"]
  /\ dlModel = [c \in DlCalls |-> "none"]
  /\ dlCancelled = [c \in DlCalls |-> FALSE]
  /\ cancelPc = "idle"
  /\ cancelModel = "none"
  /\ cancelHandle = 0
  /\ cancelAllPc = "idle"
  /\ cancelAllIds = <<>>
  /\ cancelAllHandle = 0

RegOps == 1..MaxRegOps

\* no row of the models table has the id
NoRow == [exists |-> FALSE, isActive |-> FALSE, status |-> "none"]

\* no operation was started in the slot
NoArgs == [name |-> "none", id |-> "none", status |-> "none", todo |-> <<>>]

\* how an operation ended: "ok" when it returned, "error" when it threw, and
\* the id a successful setActiveModel activated
Result(outcome, activated) == [outcome |-> outcome, activated |-> activated]

NoResult == Result("none", "none")

\* the registry over an empty models table
RegistryIdle ==
  /\ regModels = [id \in ModelIds |-> NoRow]
  /\ regPc = [o \in RegOps |-> "idle"]
  /\ regArgs = [o \in RegOps |-> NoArgs]
  /\ regResult = [o \in RegOps |-> NoResult]
  /\ regOverlap = [o \in RegOps |-> FALSE]

ServicesIdle == AutoTitleIdle /\ DownloadIdle /\ RegistryIdle

ToolsIdle == PromptIdle /\ TitleIdle /\ MarkdownIdle /\ ServicesIdle

----------------------------------------------------------------------------
(* The stream the thinking parser is run on: the token callback appends a  *)
(* chunk to the accumulated text, which is parsed again after each chunk   *)
(* (useLLMChat.ts, lines 145-148 and 156).                                 *)

THINK_OPEN_UPPER == <<"<","T","H","I","N","K",">">>
THINK_CLOSE_UPPER == <<"<","/","T","H","I","N","K",">">>
\* fragments of an opening tag split across two chunks
PART_TH == <<"<","t","h">>
PART_INK == <<"i","n","k",">">>
\* plain fragments
REASONING == <<"r","e","a","s","o","n","i","n","g"," ","s","o"," ","f","a","r">>
B_PAD == <<" ","b","\n">>
R_PAD == <<" ","r"," ">>

\* a chunk is a sequence of atoms: whole delimiters and plain fragments
ThinkChunks ==
  { <<THINK_OPEN>>, <<THINK_OPEN_UPPER>>, <<THINK_CLOSE>>, <<THINK_CLOSE_UPPER>>,
    <<PART_TH>>, <<PART_INK>>, <<REASONING>>, <<B_PAD>>,
    <<THINK_OPEN, R_PAD, THINK_CLOSE>> }

RECURSIVE Flatten(_)
Flatten(ss) == IF Len(ss) = 0 THEN <<>> ELSE ss[1] \o Flatten(Tail(ss))

\* the text of a sequence of chunks
ChunkText(chunk) == Flatten(chunk)

\* the ParsedResponse of the empty text
EmptyParsed ==
  [thinking |-> <<>>, mainResponse |-> <<>>, isThinking |-> FALSE, raw |-> <<>>]

\* the stream before its first chunk
ThinkingIdle ==
  /\ streamAtoms = <<>>
  /\ text = <<>>
  /\ parsed = EmptyParsed
  /\ prevParsed = EmptyParsed
  /\ stripped = <<>>
  /\ extracted = <<>>

InitThinking == ThinkingIdle /\ SanitizerIdle /\ ChatIdle /\ ToolsIdle

\* onToken: fullResponse += token, then the accumulated text is parsed again
OnToken(chunk) ==
  /\ Len(streamAtoms) < MaxChunks
  /\ streamAtoms' = Append(streamAtoms, chunk)
  /\ text' = text \o ChunkText(chunk)
  /\ parsed' = parseThinkingResponse(text')
  /\ prevParsed' = parsed
  /\ stripped' = stripThinkingTags(text')
  /\ extracted' = extractThinking(text')
  /\ UNCHANGED <<sanVars, chatVars, toolVars>>

NextThinking == \E chunk \in ThinkChunks : OnToken(chunk)

SpecThinking == InitThinking /\ [][NextThinking]_vars

----------------------------------------------------------------------------
(* Reference reading of a stream at the level of its atoms *)

IsOpenAtom(a) == Len(a) = Len(THINK_OPEN) /\ MatchesAtCI(a, 0, THINK_OPEN)
IsCloseAtom(a) == Len(a) = Len(THINK_CLOSE) /\ MatchesAtCI(a, 0, THINK_CLOSE)

Occurrences(t, lit) == {i \in 0..(Len(t) - Len(lit)) : MatchesAtCI(t, i, lit)}

NoDelimiter(t) == Occurrences(t, THINK_OPEN) = {} /\ Occurrences(t, THINK_CLOSE) = {}

StreamAtoms == Flatten(streamAtoms)

\* the delimiters of the text are exactly the delimiter atoms of the stream
\* (no delimiter is formed by fragments that meet)
WholeDelimiters ==
  /\ Cardinality(Occurrences(text, THINK_OPEN))
       = Cardinality({k \in 1..Len(StreamAtoms) : IsOpenAtom(StreamAtoms[k])})
  /\ Cardinality(Occurrences(text, THINK_CLOSE))
       = Cardinality({k \in 1..Len(StreamAtoms) : IsCloseAtom(StreamAtoms[k])})

\* the text outside all reasoning spans, in order; inside tells whether the
\* scan is within a span
RECURSIVE RefOutside(_, _)
RefOutside(atoms, inside) ==
  IF Len(atoms) = 0 THEN <<>>
  ELSE LET a == atoms[1] IN
       IF inside
       THEN RefOutside(Tail(atoms), ~IsCloseAtom(a))
       ELSE IF IsOpenAtom(a) THEN RefOutside(Tail(atoms), TRUE)
            ELSE a \o RefOutside(Tail(atoms), FALSE)

\* the trimmed contents of the non-empty spans, in order; cur is the content
\* of the span being read
RECURSIVE RefSections(_, _, _)
RefSections(atoms, inside, cur) ==
  LET done == IF trim(cur) = <<>> THEN <<>> ELSE <<trim(cur)>> IN
  IF Len(atoms) = 0 THEN (IF inside THEN done ELSE <<>>)
  ELSE LET a == atoms[1] IN
       IF inside
       THEN IF IsCloseAtom(a) THEN done \o RefSections(Tail(atoms), FALSE, <<>>)
            ELSE RefSections(Tail(atoms), TRUE, cur \o a)
       ELSE RefSections(Tail(atoms), IsOpenAtom(a), <<>>)

----------------------------------------------------------------------------
(* Properties of the thinking parser *)

\* C1: the main response of a prefix of the stream is a prefix of the main
\* response of the longer text: text already emitted is never retracted.
C1_NoRetraction == IsPrefix(prevParsed.mainResponse, parsed.mainResponse)

LastOpen == CHOOSE i \in Occurrences(text, THINK_OPEN) :
              \A k \in Occurrences(text, THINK_OPEN) : k <= i

\* the last opening delimiter of the text has no closing delimiter after it
LastOpenUnclosed ==
  /\ Occurrences(text, THINK_OPEN) # {}
  /\ indexOfCI(text, THINK_CLOSE, LastOpen + Len(THINK_OPEN)) = -1

\* C2: when the last opening delimiter has no closing delimiter after it,
\* everything from it to the end of the text is reasoning: isThinking is
\* true, the trimmed tail ends the thinking text, and the main response is
\* that of the text before the delimiter; "<think>reasoning so far" gives
\* thinking "reasoning so far" and an empty main response.
C2_UnterminatedSpan ==
  /\ LastOpenUnclosed =>
       /\ parsed.isThinking
       /\ IsSuffix(trim(substring(text, LastOpen + Len(THINK_OPEN), Len(text))),
                   parsed.thinking)
       /\ parsed.mainResponse
            = parseThinkingResponse(substring(text, 0, LastOpen)).mainResponse
  /\ text = THINK_OPEN \o REASONING =>
       /\ parsed.isThinking
       /\ parsed.thinking = REASONING
       /\ parsed.mainResponse = <<>>

C2_Witness ==
  /\ text = B_PAD \o THINK_OPEN_UPPER \o REASONING
  /\ parsed.isThinking
  /\ parsed.thinking = REASONING

\* some opening delimiter of the text has no closing delimiter after it
HasUnclosedOpen ==
  \E i \in Occurrences(text, THINK_OPEN) :
    indexOfCI(text, THINK_CLOSE, i + Len(THINK_OPEN)) = -1

\* C8: isThinking is true exactly when an opening delimiter is not followed
\* by a closing delimiter, delimiters being recognised in any letter case.
C8_IsThinkingIffUnclosed == parsed.isThinking <=> HasUnclosedOpen

\* C9: stripThinkingTags(a + "<think>" + b + "</think>" + c) is a + c
\* trimmed, for a, b, c without delimiters.
C9_StripRoundTrip ==
  \A i \in Occurrences(text, THINK_OPEN) :
    \A j \in Occurrences(text, THINK_CLOSE) :
      LET a == substring(text, 0, i)
          b == substring(text, i + Len(THINK_OPEN), j)
          c == substring(text, j + Len(THINK_CLOSE), Len(text))
      IN  (j >= i + Len(THINK_OPEN) /\ NoDelimiter(a) /\ NoDelimiter(b) /\ NoDelimiter(c))
            => stripped = trim(a \o c)

C9_Witness ==
  /\ text = B_PAD \o THINK_OPEN \o R_PAD \o THINK_CLOSE \o REASONING
  /\ stripped = <<"b", "\n">> \o REASONING

\* C10: the main response is the text outside all reasoning spans, in
\* order and trimmed; thinking is the trimmed contents of the non-empty
\* spans, in order, joined by a blank line.
C10_SplitWithoutLoss ==
  WholeDelimiters =>
    /\ parsed.mainResponse = trim(RefOutside(StreamAtoms, FALSE))
    /\ parsed.thinking = join(RefSections(StreamAtoms, FALSE, <<>>), BLANK_LINE)

C10_Witness ==
  /\ text = THINK_OPEN \o R_PAD \o THINK_CLOSE \o B_PAD \o THINK_OPEN \o REASONING
  /\ parsed.mainResponse = <<"b">>
  /\ parsed.thinking = <<"r">> \o BLANK_LINE \o REASONING

\* C20: the narrower views agree with parseThinkingResponse on every text:
\* stripThinkingTags gives its mainResponse and extractThinking its thinking,
\* unterminated openings and empty spans included.
C20_NarrowViewsAgree ==
  /\ stripped = parsed.mainResponse
  /\ extracted = parsed.thinking

----------------------------------------------------------------------------
(* The raw text the sanitizer is run on: RichText receives the raw model   *)
(* output as it grows and sanitizes it on every render (RichText.tsx,      *)
(* lines 45-49).                                                           *)

HELLO == <<"H","e","l","l","o">>
NEWLINE == <<"\n">>
\* the header of a ChatML turn: "<|im_start|>" + role + "\n"
TurnHeader(role) == IM_START \o role \o NEWLINE
\* fragments of "<|im_start|>"
PART_IM == <<"<","|","i","m","_">>
PART_START == <<"s","t","a","r","t","|",">">>
\* a role prefix on a line of its own, in mixed case
LINE_USER == <<"\n","U","s","e","r",":"," ">>
\* a role prefix with nothing before it
LEAD_ASSISTANT == <<"a","s","s","i","s","t","a","n","t",":"," ">>
BOLD_TAG == <<"<","b",">">>
EOS_UPPER == <<"<","E","O","S",">">>

\* comparisons: "if a < b then c", "a < b and c", " > d", and one written
\* without a space after the operator, "i <n and "
IF_COMPARE ==
  <<"i","f"," ","a"," ","<"," ","b"," ","t","h","e","n"," ","c">>
COMPARE_AND == <<"a"," ","<"," ","b"," ","a","n","d"," ","c">>
GT_D == <<" ",">"," ","d">>
LT_WORD == <<"i"," ","<","n"," ","a","n","d"," ">>
\* the two halves of a tag written around another one: "<" and "b>"
LT == <<"<">>
B_GT == <<"b",">">>

RawChunks ==
  { TurnHeader(ROLE_ASSISTANT), TurnHeader(ROLE_USER), HELLO, IM_END,
    PART_IM, PART_START, LINE_USER, LEAD_ASSISTANT, BOLD_TAG, EOS_UPPER,
    IF_COMPARE, COMPARE_AND, GT_D, LT_WORD, LT, B_GT }

InitSanitizer == SanitizerIdle /\ ThinkingIdle /\ ChatIdle /\ ToolsIdle

\* RichText renders the longer raw text: clean = sanitizeModelOutput(raw)
RichTextRender(chunk) ==
  /\ rawChunks < MaxRawChunks
  /\ raw' = raw \o chunk
  /\ rawChunks' = rawChunks + 1
  /\ clean' = sanitizeModelOutput(raw')
  /\ UNCHANGED <<thinkVars, chatVars, toolVars>>

NextSanitizer == \E chunk \in RawChunks : RichTextRender(chunk)

SpecSanitizer == InitSanitizer /\ [][NextSanitizer]_vars

----------------------------------------------------------------------------
(* Properties of the sanitizer *)

\* C3: the sanitized text holds no chat-template control token, in any
\* letter case.
C3_NoChatTokens ==
  \A k \in 1..Len(CHAT_TOKENS) : Occurrences(clean, CHAT_TOKENS[k]) = {}

\* C6: sanitizing the complete ChatML turn "<|im_start|>" + role + "\n" + B
\* + "<|im_end|>" gives B trimmed; for role assistant and B = "Hello" the
\* result is exactly "Hello".
C6_ChatMLTurn ==
  \A role \in ROLES :
    \A body \in {HELLO, HELLO \o NEWLINE} :
      raw = TurnHeader(role) \o body \o IM_END => clean = trim(body)

\* C7: a role prefix is removed only at the very start of the text: when
\* the text, its markup stripped, does not start with a role prefix, the
\* role-prefix step removes nothing.
C7_RolePrefixAnchored ==
  LET t == stripMarkup(raw)
  IN  (raw # <<>> /\ rolePrefixEnd(t, 0) = -1)
        => clean = trim(collapseBlankLines(t, 0))

\* the offsets of the "<" of t that are not immediately followed by an ASCII
\* letter, "/" or "|"
Comparisons(t) ==
  {i \in 0..(Len(t) - 1) :
     /\ t[i + 1] = "<"
     /\ Lower(charAt(t, i + 1)) \notin LowerLetters \cup {"/", "|"}}

\* C19: the sanitizer never removes a comparison operator: every "<" not
\* immediately followed by an ASCII letter, "/" or "|" is still in the
\* output; "if a < b then c" and "a < b and c > d" come out unchanged.
C19_ComparisonsKept ==
  /\ Cardinality({k \in 1..Len(clean) : clean[k] = "<"})
       >= Cardinality(Comparisons(raw))
  /\ raw = IF_COMPARE => clean = IF_COMPARE
  /\ raw = COMPARE_AND \o GT_D => clean = COMPARE_AND \o GT_D

\* the offsets of t where HTML_TAG_RE matches: "<" or "</", an ASCII letter,
\* the rest of the tag name, and the first ">" after it
HtmlTags(t) == {i \in 0..(Len(t) - 1) : htmlTagEnd(t, i) # -1}

\* C21: the sanitized text contains no HTML-like tag.
C21_NoHtmlTags == HtmlTags(clean) = {}

\* C30: sanitizeModelOutput is idempotent: sanitizing the sanitized text
\* again changes nothing.
C30_Idempotent == sanitizeModelOutput(clean) = clean

----------------------------------------------------------------------------
(* The chat hook: hooks/useLLMChat.ts.  A sendMessage call runs from one   *)
(* await to the next in one step; calls interleave at their awaits.        *)

USER_HI == <<"h","i">>
BLANK == <<" ">>
\* what the user may hand to sendMessage
Contents == {USER_HI, BLANK}

\* the tokens of the model runtime are sequences of atoms: the opening of a
\* reasoning span, then its end and the answer with a leaked control token
TOKEN_THINKING == <<THINK_OPEN, R_PAD>>
TOKEN_ANSWER == <<THINK_CLOSE, HELLO \o IM_END>>

\* what the model runtime may stream in one generation; the generation may
\* end after any token (stop sequence, token budget)
Responses == { <<TOKEN_THINKING, TOKEN_ANSWER>> }

ChatTokens == UNION { {r[i] : i \in 1..Len(r)} : r \in Responses }

\* a message of the list; gen records the atoms of the generation an
\* assistant message was built from
Message(role, content, thinking, gen) ==
  [role |-> role, content |-> content, thinking |-> thinking, gen |-> gen]

\* tempUserMsg = { ...userMessage, id: Date.now() }: the message shown in the
\* list, told apart from every other by its id (the number of the call)
tempUserMsg(c, content) == [id |-> c] @@ Message("user", content, <<>>, <<>>)

\* the prompt list built from the ref as it stands after the awaits
allMessagesFromRef(previousMessages, ref, userMsg) == Append(ref, userMsg)

\* const allMessages = [...previousMessages, tempUserMsg] (line 127); the ref
\* messagesRef.current is no longer read
allMessages(previousMessages, ref, userMsg) == Append(previousMessages, userMsg)

InitChat ==
  /\ HookMounted
  /\ llmReady \in BOOLEAN
  /\ ThinkingIdle
  /\ SanitizerIdle
  /\ ToolsIdle

\* React renders again: the sendMessage callback is rebuilt with the current
\* isGenerating (lines 72, 201) and the effect syncs messagesRef (lines 27-29)
Render ==
  /\ renderedIsGenerating # isGenerating \/ messagesRef # messages
  /\ renderedIsGenerating' = isGenerating
  /\ messagesRef' = messages
  /\ UNCHANGED <<messages, isGenerating, streamingContent, error, pc, local,
                 db, llmReady, titleRuns>>
  /\ UNCHANGED <<thinkVars, sanVars, toolVars>>

\* a finally block that leaves streamingContent as it is
FinallyKeepsStreaming(c) ==
  /\ isGenerating' = FALSE
  /\ UNCHANGED streamingContent
  /\ pc' = [pc EXCEPT ![c] = "done"]
  /\ local' = [local EXCEPT ![c] = NoLocals]

\* the finally block of sendMessage (lines 196-199); the call returns and
\* its local variables are gone
Finally(c) ==
  /\ isGenerating' = FALSE
  /\ streamingContent' = <<>>
  /\ pc' = [pc EXCEPT ![c] = "done"]
  /\ local' = [local EXCEPT ![c] = NoLocals]

\* sendMessage(content) up to its first await (lines 73-109)
SendMessage(c, content) ==
  /\ pc[c] = "idle"
  \* the calls are numbered in the order they are made
  /\ \A d \in Calls : d < c => pc[d] # "idle"
  /\ IF trim(content) = <<>> \/ renderedIsGenerating
     THEN /\ pc' = [pc EXCEPT ![c] = "skipped"]
          /\ UNCHANGED <<messages, error, local>>
     ELSE /\ error' = "null"
          /\ local' = [local EXCEPT ![c] =
               [NoLocals EXCEPT !.content = trim(content),
                                !.previousMessages = messagesRef]]
          /\ messages' = Append(messages, tempUserMsg(c, trim(content)))
          /\ pc' = [pc EXCEPT ![c] = "saveUserMessage"]
  /\ UNCHANGED <<messagesRef, isGenerating, streamingContent,
                 renderedIsGenerating, db, llmReady, titleRuns>>
  /\ UNCHANGED <<thinkVars, sanVars, toolVars>>

\* the user message is saved; the readiness check; generation starts
\* (lines 109-145)
UserMessageSaved(c) ==
  /\ pc[c] = "saveUserMessage"
  /\ db' = Append(db, Message("user", local[c].content, <<>>, <<>>))
  /\ IF ~llmReady
     THEN /\ error' = "LLM is not ready"
          /\ Finally(c)
     ELSE /\ isGenerating' = TRUE
          /\ streamingContent' = <<>>
          /\ local' = [local EXCEPT ![c].allMessages =
               allMessages(local[c].previousMessages, messagesRef,
                           tempUserMsg(c, local[c].content))]
          /\ pc' = [pc EXCEPT ![c] = "generate"]
          /\ UNCHANGED error
  /\ UNCHANGED <<messages, messagesRef, renderedIsGenerating, llmReady, titleRuns>>
  /\ UNCHANGED <<thinkVars, sanVars, toolVars>>

\* databaseService.saveMessage(userMessage) rejects (lines 188-199)
UserMessageSaveFails(c) ==
  /\ pc[c] = "saveUserMessage"
  /\ error' = "save failed"
  /\ Finally(c)
  /\ UNCHANGED <<messages, messagesRef, renderedIsGenerating, db,
                 llmReady, titleRuns>>
  /\ UNCHANGED <<thinkVars, sanVars, toolVars>>

\* the token callback of llmService.generate (lines 145-148)
ChatToken(c, token) ==
  /\ pc[c] = "generate"
  /\ \E r \in Responses : IsPrefix(Append(local[c].gen, token), r)
  /\ local' = [local EXCEPT ![c].fullResponse = @ \o Flatten(token),
                            ![c].gen = Append(@, token)]
  /\ streamingContent' = local'[c].fullResponse
  /\ UNCHANGED <<messages, messagesRef, isGenerating, error,
                 renderedIsGenerating, pc, db, llmReady, titleRuns>>
  /\ UNCHANGED <<thinkVars, sanVars, toolVars>>

\* assistantMessage built from the full response without parsing it
assistantMessageRaw(fullResponse, gen) ==
  Message("assistant", fullResponse, <<>>, gen)

\* the assistantMessage sendMessage builds from the full response
\* (lines 155-171)
assistantMessage(fullResponse, gen) ==
  LET p == parseThinkingResponse(fullResponse)
  IN  Message("assistant", p.mainResponse, p.thinking, gen)

\* generation completes: the response is parsed and the assistant message
\* appended to the list (lines 150-174)
GenerationComplete(c) ==
  /\ pc[c] = "generate"
  /\ local' = [local EXCEPT ![c].assistantMessage =
       assistantMessage(local[c].fullResponse, Flatten(local[c].gen))]
  /\ messages' = Append(messages, local'[c].assistantMessage)
  /\ pc' = [pc EXCEPT ![c] = "saveAssistantMessage"]
  /\ UNCHANGED <<messagesRef, isGenerating, streamingContent, error,
                 renderedIsGenerating, db, llmReady, titleRuns>>
  /\ UNCHANGED <<thinkVars, sanVars, toolVars>>

\* llmService.generate rejects (lines 188-199)
GenerationFails(c) ==
  /\ pc[c] = "generate"
  /\ error' = "Generation failed"
  /\ Finally(c)
  /\ UNCHANGED <<messages, messagesRef, renderedIsGenerating, db,
                 llmReady, titleRuns>>
  /\ UNCHANGED <<thinkVars, sanVars, toolVars>>

\* the assistant message is saved, autoGenerateTitle is started without
\* being awaited (lines 174-187), then the finally block
AssistantMessageSaved(c) ==
  /\ pc[c] = "saveAssistantMessage"
  /\ db' = Append(db, local[c].assistantMessage)
  /\ titleRuns' = titleRuns + 1
  /\ Finally(c)
  /\ UNCHANGED <<messages, messagesRef, error, renderedIsGenerating, llmReady>>
  /\ UNCHANGED <<thinkVars, sanVars, toolVars>>

\* databaseService.saveMessage(assistantMessage) rejects (lines 188-199)
AssistantMessageSaveFails(c) ==
  /\ pc[c] = "saveAssistantMessage"
  /\ error' = "save failed"
  /\ Finally(c)
  /\ UNCHANGED <<messages, messagesRef, renderedIsGenerating, db,
                 llmReady, titleRuns>>
  /\ UNCHANGED <<thinkVars, sanVars, toolVars>>

Next ==
  \/ Render
  \/ \E c \in Calls : \E content \in Contents : SendMessage(c, content)
  \/ \E c \in Calls : UserMessageSaved(c)
  \/ \E c \in Calls : UserMessageSaveFails(c)
  \/ \E c \in Calls : \E token \in ChatTokens : ChatToken(c, token)
  \/ \E c \in Calls : GenerationComplete(c)
  \/ \E c \in Calls : GenerationFails(c)
  \/ \E c \in Calls : AssistantMessageSaved(c)
  \/ \E c \in Calls : AssistantMessageSaveFails(c)

Spec == InitChat /\ [][Next]_vars

\* every promise a sendMessage call awaits settles: the save of the user
\* message, the generation and the save of the assistant message each
\* resolve or reject
AwaitsSettle ==
  \A c \in Calls :
    /\ WF_vars(UserMessageSaveFails(c) \/ UserMessageSaved(c))
    /\ WF_vars(GenerationFails(c) \/ GenerationComplete(c))
    /\ WF_vars(AssistantMessageSaveFails(c) \/ AssistantMessageSaved(c))

SpecLive == InitChat /\ [][Next]_vars /\ AwaitsSettle

----------------------------------------------------------------------------
(* Properties of the chat hook *)

\* the assistant messages sendMessage has stored, in the list and the database
StoredAssistantMessages ==
  {messages[i] : i \in {k \in 1..Len(messages) : messages[k].role = "assistant"}}
    \cup {db[i] : i \in {k \in 1..Len(db) : db[k].role = "assistant"}}

\* C4 as stated: the content of every stored assistant message is the
\* sanitized main response of its generation (extractor first, sanitizer
\* second).
C4_StoredContentSanitized ==
  \A m \in StoredAssistantMessages :
    m.content = sanitizeModelOutput(parseThinkingResponse(Flatten(m.gen)).mainResponse)

\* C4 as amended: the content of every stored assistant message is the text
\* of its generation outside the reasoning spans, trimmed, as the thinking
\* parser returns it; the sanitizer is not applied before storing.
C4_StoredContentIsMainResponse ==
  \A m \in StoredAssistantMessages : m.content = trim(RefOutside(m.gen, FALSE))

C4_Witness ==
  \E i \in 1..Len(db) :
    /\ db[i].role = "assistant"
    /\ db[i].thinking = <<"r">>
    /\ db[i].content = HELLO \o IM_END

\* the calls whose prompt has been built
PromptBuilt == {c \in Calls : pc[c] \in {"generate", "saveAssistantMessage"}}

\* where the user message of call c stands in the message list
OwnIndex(c) ==
  CHOOSE k \in 1..Len(messages) : messages[k] = tempUserMsg(c, local[c].content)

\* C25: the list passed to buildPrompt is the history as the call found it
\* in messagesRef when it started, followed by the new user message,
\* whatever re-renders re-sync the ref during its awaits: the history is a
\* part of the message list that ends before the new user message, and the
\* new user message is the last element and occurs exactly once.
C25_PromptListSnapshot ==
  \A c \in PromptBuilt :
    LET own == tempUserMsg(c, local[c].content)
        all == local[c].allMessages
        previous == local[c].previousMessages
    IN  /\ all = previous \o <<own>>
        /\ Cardinality({k \in 1..Len(all) : all[k] = own}) = 1
        /\ IsPrefix(previous, messages)
        /\ Len(previous) < OwnIndex(c)

\* a call builds its prompt after a re-render has put its own user message
\* into the ref, and a second call builds on the first one's exchange
C25_Witness ==
  \E c \in PromptBuilt :
    /\ tempUserMsg(c, local[c].content) \in {messagesRef[k] : k \in 1..Len(messagesRef)}
    /\ Len(local[c].previousMessages) = 2
    /\ Len(local[c].allMessages) = 3

\* a call of sendMessage that is past its guard and has not returned
Running(c) == pc[c] \in {"saveUserMessage", "generate", "saveAssistantMessage"}

\* C29: every call that has set isGenerating to true reaches its finally
\* block, whether generation completes or throws or the save of the
\* assistant message fails, and every call that returns from inside the try,
\* the one stopped because the model is not ready included, returns with
\* isGenerating false and streamingContent empty.
C29_GeneratingReset ==
  /\ \A c \in Calls : (pc[c] = "generate") ~> (pc[c] = "done")
  /\ \A c \in Calls : (pc[c] = "saveUserMessage") ~> (pc[c] = "done")
  /\ [][\A c \in Calls :
          (Running(c) /\ pc'[c] = "done")
            => (isGenerating' = FALSE /\ streamingContent' = <<>>)]_vars

\* a call whose assistant message could not be saved has returned, after a
\* call whose generation threw
C29_Witness ==
  /\ \A c \in Calls : pc[c] = "done"
  /\ error = "save failed"
  /\ Len(messages) = 3
  /\ messages[3].role = "assistant"
  /\ isGenerating = FALSE
  /\ streamingContent = <<>>

\* C5: at most one generation is in flight at any time.
C5_SingleGeneration == Cardinality({c \in Calls : pc[c] = "generate"}) <= 1

----------------------------------------------------------------------------
(* The prompt builder: services/llm/prompts (src/unnamed/part_006, lines   *)
(* 127-259).  A role is the string of the Message type; RoleText is the    *)
(* text it contributes to a template literal.                              *)

\* CHAT_HISTORY_CONFIG.maxMessages
CHAT_HISTORY_CONFIG_maxMessages == 10

\* the default system prompts; each long literal is abbreviated to one symbol
CHATML_SYSTEM_PROMPT == <<"CHATML_SYSTEM_PROMPT">>
GEMMA_SYSTEM_PROMPT == <<"GEMMA_SYSTEM_PROMPT">>

RoleText(role) ==
  CASE role = "user" -> ROLE_USER
    [] role = "assistant" -> ROLE_ASSISTANT
    [] role = "system" -> ROLE_SYSTEM

\* Array.prototype.slice(start): a negative start counts from the end, and
\* -0 is 0
slice(arr, start) ==
  LET from == IF start < 0
              THEN (IF Len(arr) + start > 0 THEN Len(arr) + start ELSE 0)
              ELSE (IF start < Len(arr) THEN start ELSE Len(arr))
  IN  SubSeq(arr, from + 1, Len(arr))

\* the destructuring defaults of the options
optMaxMessages(opts) ==
  IF "maxMessages" \in DOMAIN opts THEN opts.maxMessages
  ELSE CHAT_HISTORY_CONFIG_maxMessages

optSystemPrompt(opts, default) ==
  IF "systemPrompt" \in DOMAIN opts THEN opts.systemPrompt ELSE default

optChatTemplate(opts) ==
  IF "chatTemplate" \in DOMAIN opts THEN opts.chatTemplate ELSE "chatml"

\* messages.length > maxMessages ? messages.slice(-maxMessages) : messages
recentMessages(msgs, maxMessages) ==
  IF Len(msgs) > maxMessages THEN slice(msgs, 0 - maxMessages) ELSE msgs

\* `<|im_start|>${role}\n${content}\n<|im_end|>\n`
ChatMLTurn(role, content) ==
  IM_START \o role \o NEWLINE \o content \o NEWLINE \o IM_END \o NEWLINE

\* the for loop of buildChatMLPrompt
RECURSIVE chatMLLoop(_)
chatMLLoop(msgs) ==
  IF Len(msgs) = 0 THEN <<>>
  ELSE ChatMLTurn(RoleText(msgs[1].role), msgs[1].content)
         \o chatMLLoop(Tail(msgs))

\* buildChatMLPrompt closing the assistant turn it opens
buildChatMLPromptClosed(msgs, opts) ==
  ChatMLTurn(ROLE_SYSTEM, optSystemPrompt(opts, CHATML_SYSTEM_PROMPT))
    \o chatMLLoop(recentMessages(msgs, optMaxMessages(opts)))
    \o ChatMLTurn(ROLE_ASSISTANT, <<>>)

buildChatMLPrompt(msgs, opts) ==
  ChatMLTurn(ROLE_SYSTEM, optSystemPrompt(opts, CHATML_SYSTEM_PROMPT))
    \o chatMLLoop(recentMessages(msgs, optMaxMessages(opts)))
    \o IM_START \o ROLE_ASSISTANT \o NEWLINE

\* `<start_of_turn>${role}\n${content}<end_of_turn>\n`
GemmaTurn(role, content) ==
  START_OF_TURN \o role \o NEWLINE \o content \o END_OF_TURN \o NEWLINE

\* the for loop of buildGemmaPrompt
RECURSIVE gemmaLoop(_, _, _, _)
gemmaLoop(msgs, systemPrompt, acc, systemPrepended) ==
  IF Len(msgs) = 0 THEN [prompt |-> acc, systemPrepended |-> systemPrepended]
  ELSE LET msg == msgs[1]
           role == IF msg.role = "assistant" THEN "model" ELSE msg.role
           roleText == IF role = "model" THEN ROLE_MODEL ELSE RoleText(role)
       IN  IF role = "user" /\ ~systemPrepended
           THEN gemmaLoop(Tail(msgs), systemPrompt,
                  acc \o GemmaTurn(ROLE_USER,
                                   systemPrompt \o BLANK_LINE \o msg.content),
                  TRUE)
           ELSE IF role = "system"
                THEN gemmaLoop(Tail(msgs), systemPrompt, acc, systemPrepended)
                ELSE gemmaLoop(Tail(msgs), systemPrompt,
                       acc \o GemmaTurn(roleText, msg.content), systemPrepended)

\* buildGemmaPrompt without the turn synthesized when no user turn was found
buildGemmaPromptNoSynth(msgs, opts) ==
  LET systemPrompt == optSystemPrompt(opts, GEMMA_SYSTEM_PROMPT)
      r == gemmaLoop(recentMessages(msgs, optMaxMessages(opts)),
                     systemPrompt, <<>>, FALSE)
  IN  r.prompt \o START_OF_TURN \o ROLE_MODEL \o NEWLINE

buildGemmaPrompt(msgs, opts) ==
  LET systemPrompt == optSystemPrompt(opts, GEMMA_SYSTEM_PROMPT)
      r == gemmaLoop(recentMessages(msgs, optMaxMessages(opts)),
                     systemPrompt, <<>>, FALSE)
  IN  (IF ~r.systemPrepended
       THEN GemmaTurn(ROLE_USER, systemPrompt) \o r.prompt
       ELSE r.prompt)
        \o START_OF_TURN \o ROLE_MODEL \o NEWLINE

buildPrompt(msgs, opts) ==
  IF optChatTemplate(opts) = "gemma" THEN buildGemmaPrompt(msgs, opts)
  ELSE buildChatMLPrompt(msgs, opts)

----------------------------------------------------------------------------
(* buildPrompt applied to a history and options drawn from small sets *)

HI == <<"H","i">>
YO == <<"Y","o">>
SYS == <<"S","Y","S">>

PromptMessages ==
  { Message("user", HI, <<>>, <<>>), Message("user", YO, <<>>, <<>>),
    Message("assistant", HELLO, <<>>, <<>>), Message("system", YO, <<>>, <<>>) }

Histories == UNION {[1..n -> PromptMessages] : n \in 0..MaxHistory}

\* a PromptOptions object holds any subset of its three optional fields
PromptOptionSet ==
  {a @@ b @@ c :
     a \in {<<>>} \cup {("maxMessages" :> n) : n \in 0..MaxMessagesOption},
     b \in {<<>>, ("systemPrompt" :> SYS)},
     c \in {<<>>, ("chatTemplate" :> "chatml"), ("chatTemplate" :> "gemma")}}

InitPrompt ==
  /\ history \in Histories
  /\ options \in PromptOptionSet
  /\ prompt = <<>>
  /\ TitleIdle /\ MarkdownIdle /\ ServicesIdle
  /\ ThinkingIdle /\ SanitizerIdle /\ ChatIdle

\* buildPrompt(history, options) returns
BuildPrompt ==
  /\ prompt = <<>>
  /\ prompt' = buildPrompt(history, options)
  /\ UNCHANGED <<history, options, titleVars, mdVars, svcVars>>
  /\ UNCHANGED <<thinkVars, sanVars, chatVars>>

NextPrompt == BuildPrompt

SpecPrompt == InitPrompt /\ [][NextPrompt]_vars

----------------------------------------------------------------------------
(* Properties of the prompt builder *)

\* the last n messages of the history, in their order
LastMessages(n) == SubSeq(history, Len(history) - n + 1, Len(history))

\* the options with maxMessages left unset
OptionsWithoutMax == [k \in DOMAIN options \ {"maxMessages"} |-> options[k]]

\* C11: for every history and every maxMessages >= 0 the prompt, ChatML and
\* Gemma alike, is the prompt of the last min(length of history,
\* maxMessages) messages in their order; no older message contributes.
C11_LastMaxMessages ==
  LET maxMessages == optMaxMessages(options)
      n == IF Len(history) < maxMessages THEN Len(history) ELSE maxMessages
  IN  prompt # <<>> => prompt = buildPrompt(LastMessages(n), OptionsWithoutMax)

\* the messages the builder retains
Retained == recentMessages(history, optMaxMessages(options))

\* the retained messages that are not system messages
RetainedTurns == SelectSeq(Retained, LAMBDA m : m.role # "system")

FirstUser ==
  LET users == {k \in 1..Len(RetainedTurns) : RetainedTurns[k].role = "user"}
  IN  IF users = {} THEN 0 ELSE Min(users)

GemmaRoleText(role) == IF role = "assistant" THEN ROLE_MODEL ELSE RoleText(role)

\* C12: in a Gemma prompt the system instruction is carried by exactly one
\* turn: it is prepended, followed by a blank line, to the first retained
\* user message, or else a user turn holding only the instruction comes
\* ahead of all other turns; system messages produce no turn.
C12_GemmaSystemTurn ==
  LET systemPrompt == optSystemPrompt(options, GEMMA_SYSTEM_PROMPT)
      turns == [k \in 1..Len(RetainedTurns) |->
                  GemmaTurn(GemmaRoleText(RetainedTurns[k].role),
                            IF k = FirstUser
                            THEN systemPrompt \o BLANK_LINE \o RetainedTurns[k].content
                            ELSE RetainedTurns[k].content)]
      synthesized == IF FirstUser = 0 THEN GemmaTurn(ROLE_USER, systemPrompt)
                     ELSE <<>>
  IN  (prompt # <<>> /\ optChatTemplate(options) = "gemma") =>
        /\ prompt = synthesized \o Flatten(turns)
                       \o START_OF_TURN \o ROLE_MODEL \o NEWLINE
        /\ Cardinality(Occurrences(prompt, systemPrompt)) = 1
        /\ Cardinality(Occurrences(prompt, START_OF_TURN))
             = Len(RetainedTurns) + (IF FirstUser = 0 THEN 1 ELSE 0) + 1

C12_Witness ==
  /\ history = <<Message("system", YO, <<>>, <<>>),
                 Message("assistant", HELLO, <<>>, <<>>)>>
  /\ options = ("chatTemplate" :> "gemma")
  /\ prompt = GemmaTurn(ROLE_USER, GEMMA_SYSTEM_PROMPT)
                \o GemmaTurn(ROLE_MODEL, HELLO)
                \o START_OF_TURN \o ROLE_MODEL \o NEWLINE

\* "<|im_start|>system\nSYS\n<|im_end|>\n<|im_start|>user\nHi\n<|im_end|>\n
\* <|im_start|>assistant\n"
C13_Example ==
  <<"<","|","i","m","_","s","t","a","r","t","|",">","s","y","s","t","e","m","\n",
    "S","Y","S","\n","<","|","i","m","_","e","n","d","|",">","\n",
    "<","|","i","m","_","s","t","a","r","t","|",">","u","s","e","r","\n",
    "H","i","\n","<","|","i","m","_","e","n","d","|",">","\n",
    "<","|","i","m","_","s","t","a","r","t","|",">",
    "a","s","s","i","s","t","a","n","t","\n">>

\* C13: with chatTemplate "chatml" or unset the prompt is the system turn,
\* one "<|im_start|>{role}\n{content}\n<|im_end|>\n" turn per retained
\* message in order, then an open "<|im_start|>assistant\n" turn; the
\* history [{user, "Hi"}] with systemPrompt "SYS" gives the literal example.
C13_ChatMLPrompt ==
  LET systemPrompt == optSystemPrompt(options, CHATML_SYSTEM_PROMPT)
      turns == [k \in 1..Len(Retained) |->
                  IM_START \o RoleText(Retained[k].role) \o NEWLINE
                    \o Retained[k].content \o NEWLINE \o IM_END \o NEWLINE]
      open == IM_START \o ROLE_ASSISTANT \o NEWLINE
  IN  (prompt # <<>> /\ optChatTemplate(options) = "chatml") =>
        /\ prompt = IM_START \o ROLE_SYSTEM \o NEWLINE \o systemPrompt
                       \o NEWLINE \o IM_END \o NEWLINE
                       \o Flatten(turns) \o open
        /\ Cardinality(Occurrences(prompt, IM_END)) = Len(Retained) + 1
        /\ (history = <<Message("user", HI, <<>>, <<>>)>>
              /\ "systemPrompt" \in DOMAIN options)
             => prompt = C13_Example

C13_Witness ==
  /\ history = <<Message("user", HI, <<>>, <<>>)>>
  /\ options = ("systemPrompt" :> SYS) @@ ("chatTemplate" :> "chatml")
  /\ prompt = C13_Example

----------------------------------------------------------------------------
(* The title generator: services/llm/titleGenerator.ts, lines 1-138 *)

\* toUpperCase on one character
Upper(c) ==
  CASE c = "a" -> "A" [] c = "b" -> "B" [] c = "c" -> "C" [] c = "d" -> "D"
    [] c = "e" -> "E" [] c = "f" -> "F" [] c = "g" -> "G" [] c = "h" -> "H"
    [] c = "i" -> "I" [] c = "j" -> "J" [] c = "k" -> "K" [] c = "l" -> "L"
    [] c = "m" -> "M" [] c = "n" -> "N" [] c = "o" -> "O" [] c = "p" -> "P"
    [] c = "q" -> "Q" [] c = "r" -> "R" [] c = "s" -> "S" [] c = "t" -> "T"
    [] c = "u" -> "U" [] c = "v" -> "V" [] c = "w" -> "W" [] c = "x" -> "X"
    [] c = "y" -> "Y" [] c = "z" -> "Z" [] OTHER -> c

\* the one-word alternatives of GREETING_PATTERNS
GREETING_WORDS ==
  { <<"h","i">>, <<"h","e","l","l","o">>, <<"h","e","y">>,
    <<"g","r","e","e","t","i","n","g","s">>, <<"h","o","w","d","y">>,
    <<"y","o">>, <<"s","u","p">> }

GOOD == <<"g","o","o","d">>
DAY_PARTS ==
  { <<"m","o","r","n","i","n","g">>, <<"a","f","t","e","r","n","o","o","n">>,
    <<"e","v","e","n","i","n","g">> }
WHAT == <<"w","h","a","t">>
UP == <<"u","p">>

\* the offsets where the group (hi|hello|...|what'?s\s*up) can end when it is
\* matched at the start of t, case-insensitively
greetingEnds(t) ==
  LET afterGood == skipSpaces(t, Len(GOOD))
      afterWhat == IF charAt(t, Len(WHAT)) = "'" THEN Len(WHAT) + 1 ELSE Len(WHAT)
      afterS == skipSpaces(t, afterWhat + 1)
  IN  {Len(w) : w \in {v \in GREETING_WORDS : MatchesAtCI(t, 0, v)}}
        \cup {afterGood + Len(d) :
                d \in {v \in DAY_PARTS :
                         MatchesAtCI(t, 0, GOOD) /\ MatchesAtCI(t, afterGood, v)}}
        \cup (IF /\ MatchesAtCI(t, 0, WHAT)
                 /\ Lower(charAt(t, afterWhat)) = "s"
                 /\ MatchesAtCI(t, afterS, UP)
              THEN {afterS + Len(UP)} ELSE {})

\* GREETING_PATTERNS.test(text.trim()): a greeting, then only [\s!?.] up to
\* the end
isGreeting(content) ==
  LET t == trim(content)
  IN  \E e \in greetingEnds(t) :
        \A k \in (e + 1)..Len(t) : IsSpace(t[k]) \/ t[k] \in {"!", "?", "."}

\* findSubstantiveUserMessage returning the first user message, greeting or not
findFirstUserMessage(msgs) ==
  LET S == {k \in 1..Len(msgs) : msgs[k].role = "user"}
  IN  IF S = {} THEN 0 ELSE Min(S)

\* the index of the first user message that is not a greeting, 0 for null
findSubstantiveUserMessage(msgs) ==
  LET S == {k \in 1..Len(msgs) : msgs[k].role = "user" /\ ~isGreeting(msgs[k].content)}
  IN  IF S = {} THEN 0 ELSE Min(S)

\* String.prototype.split(/\s+/): cur is the piece being read
RECURSIVE splitSpaces(_, _, _)
splitSpaces(t, i, cur) ==
  IF i >= Len(t) THEN <<cur>>
  ELSE IF IsSpace(t[i + 1])
       THEN <<cur>> \o splitSpaces(t, skipSpaces(t, i), <<>>)
       ELSE splitSpaces(t, i + 1, Append(cur, t[i + 1]))

\* s.charAt(0).toUpperCase() + s.slice(1)
capitalise(t) == IF Len(t) = 0 THEN <<>> ELSE <<Upper(t[1])>> \o Tail(t)

\* the one character U+2026
ELLIPSIS == <<"...">>
NEW_CHAT == <<"N","e","w"," ","C","h","a","t">>

\* generateFallbackTitle with the title left as the user typed it
generateFallbackTitleNoCapital(msgs) ==
  LET k == findSubstantiveUserMessage(msgs)
      first == findFirstUserMessage(msgs)
      words == splitSpaces(trim(msgs[k].content), 0, <<>>)
      title == join(SubSeq(words, 1, Min({5, Len(words)})), BLANK)
  IN  IF k = 0
      THEN (IF first = 0 THEN NEW_CHAT
            ELSE LET ws == splitSpaces(trim(msgs[first].content), 0, <<>>)
                 IN  join(SubSeq(ws, 1, Min({4, Len(ws)})), BLANK))
      ELSE IF Len(title) > 40 THEN substring(title, 0, 37) \o ELLIPSIS ELSE title

generateFallbackTitle(msgs) ==
  LET k == findSubstantiveUserMessage(msgs)
      first == findFirstUserMessage(msgs)
      words == splitSpaces(trim(msgs[k].content), 0, <<>>)
      title == join(SubSeq(words, 1, Min({5, Len(words)})), BLANK)
  IN  IF k = 0
      THEN (IF first = 0 THEN NEW_CHAT
            ELSE LET ws == splitSpaces(trim(msgs[first].content), 0, <<>>)
                 IN  capitalise(join(SubSeq(ws, 1, Min({4, Len(ws)})), BLANK)))
      ELSE capitalise(IF Len(title) > 40
                      THEN substring(title, 0, 37) \o ELLIPSIS ELSE title)

\* .replace(/<\|im_end\|>/g, ""): exact case
RECURSIVE removeImEnd(_, _)
removeImEnd(t, i) ==
  IF i >= Len(t) THEN <<>>
  ELSE IF MatchesAt(t, i, IM_END) THEN removeImEnd(t, i + Len(IM_END))
       ELSE <<t[i + 1]>> \o removeImEnd(t, i + 1)

\* .replace(/<\|im_start\|>[\s\S]*/g, ""): everything from the first marker on
cutAtImStart(t) ==
  LET S == {i \in 0..(Len(t) - Len(IM_START)) : MatchesAt(t, i, IM_START)}
  IN  IF S = {} THEN t ELSE substring(t, 0, Min(S))

\* the replace that removes every double quote, single quote and backtick
removeQuotes(t) == SelectSeq(t, LAMBDA c : c \notin {"\"", "'", BACKTICK})

\* .replace(/[.!?:]+$/g, ""): the run of punctuation that ends the string
stripTrailingPunctuation(t) ==
  LET keep == {i \in 0..Len(t) :
                 \A k \in (i + 1)..Len(t) : t[k] \in {".", "!", "?", ":"}}
  IN  substring(t, 0, Min(keep))

TITLE_PREFIXES ==
  { <<"t","i","t","l","e">>, <<"t","o","p","i","c">>,
    <<"s","u","b","j","e","c","t">> }

\* .replace(/^(title|topic|subject)\s*:\s*/i, "")
stripTitlePrefix(t) ==
  LET names == {n \in TITLE_PREFIXES : MatchesAtCI(t, 0, n)}
      q == skipSpaces(t, Len(CHOOSE n \in names : TRUE))
  IN  IF names = {} \/ charAt(t, q) # ":" THEN t
      ELSE substring(t, skipSpaces(t, q + 1), Len(t))

\* .split("\n")[0]
firstLine(t) ==
  LET S == {i \in 0..(Len(t) - 1) : t[i + 1] = "\n"}
  IN  IF S = {} THEN t ELSE substring(t, 0, Min(S))

\* the clean-up of the generated title (lines 95-103)
cleanTitle(title) ==
  substring(
    firstLine(trim(stripTitlePrefix(stripTrailingPunctuation(
      removeQuotes(cutAtImStart(removeImEnd(title, 0))))))),
    0, 40)

\* the title passes the validation of line 106
validTitle(title) ==
  ~(Len(title) = 0 \/ Len(title) < 2 \/ Len(splitSpaces(title, 0, <<>>)) > 10)

----------------------------------------------------------------------------
(* generateChatTitle applied to messages drawn from a small set.  The call *)
(* runs to its await of llmService.generate in one step; the few-shot      *)
(* prompt it builds is only handed to the model runtime, whose output is   *)
(* any of the candidates below.                                            *)

W_SORT == <<"s","o","r","t">>
W_A == <<"a">>
W_LIST == <<"l","i","s","t">>
W_TITLE_SORT == <<"S","o","r","t">>
W_TITLE_LIST == <<"L","i","s","t">>
W_SORTING == <<"S","o","r","t","i","n","g">>

\* what the user wrote
HEY == <<"h","e","y">>
GOOD_MORNING == <<"G","o","o","d"," "," ","m","o","r","n","i","n","g","!"," ">>
SORT_A_LIST == join(<<W_SORT, W_A, W_LIST>>, BLANK)
\* eight words, two of them separated by two spaces
LONG_QUERY == join(<<W_SORT, W_A, W_LIST, <<"o","f">>, <<>>, <<"s","i","x">>,
                     <<"n","e","w">>, <<"n","a","m","e","s">>>>, BLANK)

\* the contents among them that GREETING_PATTERNS matches
GreetingInputs == {HEY, GOOD_MORNING}

TitleMessageSet ==
  { Message("user", HEY, <<>>, <<>>), Message("user", GOOD_MORNING, <<>>, <<>>),
    Message("user", SORT_A_LIST, <<>>, <<>>), Message("user", LONG_QUERY, <<>>, <<>>),
    Message("assistant", HELLO, <<>>, <<>>) }

TitleMessageLists == UNION {[1..n -> TitleMessageSet] : n \in 0..MaxTitleMessages}

\* what the model runtime may return as a title
CAND_TWO == join(<<W_TITLE_SORT, W_TITLE_LIST>>, BLANK)
CAND_ONE == W_SORTING
CAND_FIVE == join(<<W_TITLE_SORT, W_A, W_LIST, <<"o","f">>, <<"s","i","x">>>>, BLANK)
CAND_ELEVEN == join([k \in 1..11 |-> W_A], BLANK)
CAND_LETTER == <<"x">>
\* the title with a leaked prefix, quotes, a final period and control tokens
CAND_MARKED ==
  <<"T","i","t","l","e",":"," ","\"">> \o CAND_TWO \o <<"\"",".">> \o IM_END
    \o IM_START \o ROLE_USER

TitleCandidates ==
  {CAND_TWO, CAND_ONE, CAND_FIVE, CAND_ELEVEN, CAND_LETTER, CAND_MARKED, <<>>}

InitTitle ==
  /\ titleMessages \in TitleMessageLists
  /\ titlePc = "idle"
  /\ titleResult = <<>>
  /\ titleOutcome = "none"
  /\ generateCalls = 0
  /\ HookMounted
  /\ llmReady \in BOOLEAN
  /\ PromptIdle /\ MarkdownIdle /\ ServicesIdle
  /\ ThinkingIdle /\ SanitizerIdle

\* the promise of generateChatTitle resolves
TitleResolves(result, outcome) ==
  /\ titleResult' = result
  /\ titleOutcome' = outcome
  /\ titlePc' = "done"

\* generateChatTitle(titleMessages) up to its await (lines 32-83)
GenerateChatTitle ==
  /\ titlePc = "idle"
  /\ IF Len(titleMessages) = 0 \/ findSubstantiveUserMessage(titleMessages) = 0
     THEN TitleResolves(NEW_CHAT, "sentinel") /\ UNCHANGED generateCalls
     ELSE IF ~llmReady
          THEN /\ TitleResolves(generateFallbackTitle(titleMessages), "fallback")
               /\ UNCHANGED generateCalls
          ELSE /\ generateCalls' = generateCalls + 1
               /\ titlePc' = "generate"
               /\ UNCHANGED <<titleResult, titleOutcome>>
  /\ UNCHANGED <<titleMessages, promptVars, mdVars, svcVars>>
  /\ UNCHANGED <<thinkVars, sanVars, chatVars>>

\* llmService.generate resolves: clean-up and validation (lines 94-111)
TitleGenerated(candidate) ==
  /\ titlePc = "generate"
  /\ LET title == cleanTitle(candidate)
     IN  IF validTitle(title)
         THEN TitleResolves(title, "accepted")
         ELSE TitleResolves(generateFallbackTitle(titleMessages), "fallback")
  /\ UNCHANGED <<titleMessages, generateCalls, promptVars, mdVars, svcVars>>
  /\ UNCHANGED <<thinkVars, sanVars, chatVars>>

\* llmService.generate rejects: the catch block (lines 112-115)
TitleGenerationFails ==
  /\ titlePc = "generate"
  /\ TitleResolves(generateFallbackTitle(titleMessages), "fallback")
  /\ UNCHANGED <<titleMessages, generateCalls, promptVars, mdVars, svcVars>>
  /\ UNCHANGED <<thinkVars, sanVars, chatVars>>

NextTitle ==
  \/ GenerateChatTitle
  \/ \E candidate \in TitleCandidates : TitleGenerated(candidate)
  \/ TitleGenerationFails

SpecTitle == InitTitle /\ [][NextTitle]_vars

----------------------------------------------------------------------------
(* Properties of the title generator *)

\* the number of whitespace-separated words of a text
WordCount(t) ==
  Cardinality({k \in 1..Len(t) :
                 ~IsSpace(t[k]) /\ (k = 1 \/ IsSpace(t[k - 1]))})

\* C14: a title returned by the model runtime is accepted only if, cleaned
\* up, it has exactly 2 or 3 whitespace-separated words; otherwise the value
\* returned is the one of the fallback extractor.
C14_WordCountGate ==
  (titlePc = "done" /\ generateCalls = 1) =>
    \/ titleOutcome = "accepted" /\ WordCount(titleResult) \in {2, 3}
    \/ /\ titleOutcome = "fallback"
       /\ titleResult = generateFallbackTitle(titleMessages)

\* some user message is not one of the greetings
HasSubstantive ==
  \E k \in 1..Len(titleMessages) :
    titleMessages[k].role = "user" /\ titleMessages[k].content \notin GreetingInputs

\* "Sort a list"
SORT_TITLE == <<"S","o","r","t"," ","a"," ","l","i","s","t">>

\* the fallback title is the one computed from the messages
FallbackReturned ==
  /\ titleResult = generateFallbackTitle(titleMessages)
  /\ (Len(titleMessages) > 0 /\ titleMessages[1].content = SORT_A_LIST)
       => titleResult = SORT_TITLE

\* C15 as stated: generateChatTitle never rejects; when the model runtime is
\* not ready it returns the fallback title without calling
\* llmService.generate, and when generation throws or its output fails
\* validation it returns the same fallback title.
C15_AlwaysFallback ==
  titlePc = "done" =>
    /\ titleOutcome \in {"sentinel", "fallback", "accepted"}
    /\ ~llmReady => (generateCalls = 0 /\ FallbackReturned)
    /\ (generateCalls = 1 /\ titleOutcome # "accepted") => FallbackReturned

\* C15 as amended: the same for messages that hold a substantive user
\* message; for the others the sentinel "New Chat" is returned, ready or not.
C15_FallbackWhenSubstantive ==
  titlePc = "done" =>
    /\ titleOutcome \in {"sentinel", "fallback", "accepted"}
    /\ IF HasSubstantive
       THEN /\ ~llmReady => (generateCalls = 0 /\ FallbackReturned)
            /\ (generateCalls = 1 /\ titleOutcome # "accepted") => FallbackReturned
       ELSE generateCalls = 0 /\ titleResult = NEW_CHAT

C15_Witness ==
  /\ titleMessages = <<Message("assistant", HELLO, <<>>, <<>>),
                       Message("user", LONG_QUERY, <<>>, <<>>)>>
  /\ titlePc = "done"
  /\ generateCalls = 1
  /\ titleOutcome = "fallback"
  /\ titleResult = <<"S">> \o Tail(join(<<W_SORT, W_A, W_LIST, <<"o","f">>,
                                          <<"s","i","x">>>>, BLANK))

\* C16: when no user message is substantive (each one is a greeting, or
\* there is none) generateChatTitle returns "New Chat" and
\* llmService.generate is never invoked.
C16_GreetingSentinel ==
  ~HasSubstantive =>
    /\ generateCalls = 0
    /\ titlePc # "generate"
    /\ titlePc = "done" => titleResult = NEW_CHAT

C16_Witness ==
  /\ titleMessages = <<Message("user", HEY, <<>>, <<>>)>>
  /\ llmReady
  /\ titlePc = "done"
  /\ titleResult = NEW_CHAT
  /\ generateCalls = 0

----------------------------------------------------------------------------
(* The Markdown parser: utils/markdownParser (src/unnamed/part_012).       *)
(* Lines are numbered from 1; offsets within a line are 0-based.           *)

STAR == <<"*">>
STARS2 == <<"*","*">>
STARS3 == <<"*","*","*">>
DOLLAR == <<"$">>
DOLLARS == <<"$","$">>
TICK == <<BACKTICK>>
FENCE == <<BACKTICK, BACKTICK, BACKTICK>>
\* the character U+2022
BULLET == "U+2022"

NoSpanMatch == [type |-> "none", end |-> -1, content |-> <<>>]

\* an alternative of inlineRe of the form c([^c]+?)c matched at offset i: the
\* body runs to the first c after the opening one and is not empty
delimitedSpan(t, i, c, type) ==
  LET J == {j \in (i + 1)..(Len(t) - 1) : t[j + 1] = c}
  IN  IF charAt(t, i) = c /\ J # {} /\ Min(J) >= i + 2
      THEN [type |-> type, end |-> Min(J) + 1,
            content |-> substring(t, i + 1, Min(J))]
      ELSE NoSpanMatch

\* an alternative of inlineRe of the form m(.+?)m for a marker m of stars,
\* matched at offset i: the lazy body ends at the first marker that leaves it
\* not empty, and holds no line terminator
starSpan(t, i, m, type) ==
  LET J == {j \in (i + Len(m) + 1)..(Len(t) - Len(m)) : MatchesAt(t, j, m)}
  IN  IF /\ MatchesAt(t, i, m)
         /\ J # {}
         /\ \A k \in (i + Len(m))..(Min(J) - 1) : ~IsLineTerminator(charAt(t, k))
      THEN [type |-> type, end |-> Min(J) + Len(m),
            content |-> substring(t, i + Len(m), Min(J))]
      ELSE NoSpanMatch

\* inlineRe matched at offset i with bold tried before bold-italic
inlineMatchAtBoldFirst(t, i) ==
  LET math == delimitedSpan(t, i, "$", "math-inline")
      code == delimitedSpan(t, i, BACKTICK, "code-inline")
      boldItalic == starSpan(t, i, STARS3, "bold-italic")
      bold == starSpan(t, i, STARS2, "bold")
      italic == delimitedSpan(t, i, "*", "italic")
  IN  IF math.type # "none" THEN math
      ELSE IF code.type # "none" THEN code
      ELSE IF bold.type # "none" THEN bold
      ELSE IF boldItalic.type # "none" THEN boldItalic
      ELSE italic

\* inlineRe matched at offset i: the alternatives are tried in their order
\*   \$([^\$]+?)\$ | code | \*\*\*(.+?)\*\*\* | \*\*(.+?)\*\* | \*([^*]+?)\*
inlineMatchAt(t, i) ==
  LET math == delimitedSpan(t, i, "$", "math-inline")
      code == delimitedSpan(t, i, BACKTICK, "code-inline")
      boldItalic == starSpan(t, i, STARS3, "bold-italic")
      bold == starSpan(t, i, STARS2, "bold")
      italic == delimitedSpan(t, i, "*", "italic")
  IN  IF math.type # "none" THEN math
      ELSE IF code.type # "none" THEN code
      ELSE IF boldItalic.type # "none" THEN boldItalic
      ELSE IF bold.type # "none" THEN bold
      ELSE italic

\* inlineRe.exec(text) with the regex's lastIndex: the offset of the leftmost
\* match, or -1
inlineExec(t, lastIndex) ==
  LET S == {i \in lastIndex..(Len(t) - 1) : inlineMatchAt(t, i).type # "none"}
  IN  IF S = {} THEN -1 ELSE Min(S)

Span(type, content) == [type |-> type, content |-> content]

\* the while loop of parseInlineSpans and the code after it
RECURSIVE inlineLoop(_, _, _)
inlineLoop(t, lastIndex, spans) ==
  LET index == inlineExec(t, lastIndex)
      match == inlineMatchAt(t, index)
      before == IF index > lastIndex
                THEN <<Span("text", substring(t, lastIndex, index))>> ELSE <<>>
  IN  IF index = -1
      THEN LET all == IF lastIndex < Len(t)
                      THEN Append(spans, Span("text", substring(t, lastIndex, Len(t))))
                      ELSE spans
           IN  IF Len(all) = 0 THEN <<Span("text", t)>> ELSE all
      ELSE inlineLoop(t, match.end,
                      spans \o before \o <<Span(match.type, match.content)>>)

\* parseInlineSpans without the plain text around the matches
parseInlineSpansMarkedOnly(t) ==
  IF Len(t) = 0 THEN <<>>
  ELSE SelectSeq(inlineLoop(t, 0, <<>>), LAMBDA sp : sp.type # "text")

parseInlineSpans(t) == IF Len(t) = 0 THEN <<>> ELSE inlineLoop(t, 0, <<>>)

\* text.split("\n"); cur is the line being read
RECURSIVE splitLines(_, _, _)
splitLines(t, i, cur) ==
  IF i >= Len(t) THEN <<cur>>
  ELSE IF t[i + 1] = "\n" THEN <<cur>> \o splitLines(t, i + 1, <<>>)
       ELSE splitLines(t, i + 1, Append(cur, t[i + 1]))

\* the offset after the run of characters of class that starts at p
runEnd(t, p, class) ==
  Min({q \in p..Len(t) : q = Len(t) \/ charAt(t, q) \notin class})

\* the character classes \w, # and \d of the line patterns
WordChars == LowerLetters \cup UpperLetters \cup Digits \cup {"_"}
Hashes == {"#"}

\* no line terminator from offset a on: what .* and .+ can match up to $
NoTerminator(t, a) == \A k \in (a + 1)..Len(t) : ~IsLineTerminator(t[k])

\* \s+(.+)$ matched at offset h: the offset where group (.+) starts, or -1;
\* \s+ is greedy and gives characters back until (.+)$ can match
restAfterSpaces(t, h) ==
  LET Q == {q \in (h + 1)..(Len(t) - 1) :
              /\ \A k \in h..(q - 1) : IsSpace(charAt(t, k))
              /\ NoTerminator(t, q)}
  IN  IF Q = {} THEN -1 ELSE Max(Q)

\* line.match(/^```(\w*)\s*$/): the offset where the language ends, or -1
fenceOpen(line) ==
  LET w == runEnd(line, Len(FENCE), WordChars)
  IN  IF MatchesAt(line, 0, FENCE) /\ skipSpaces(line, w) = Len(line)
      THEN w ELSE -1

\* a fence-close test that accepts every line starting with a fence
fenceCloseAnyFence(line) == MatchesAt(line, 0, FENCE)

\* lines[i].match(/^```\s*$/)
fenceClose(line) ==
  MatchesAt(line, 0, FENCE) /\ skipSpaces(line, Len(FENCE)) = Len(line)

\* line.replace(/\$\$$/, "")
stripClosingDollars(line) ==
  IF IsSuffix(DOLLARS, line) THEN substring(line, 0, Len(line) - 2) ELSE line

\* line.match(/^(#{1,3})\s+(.+)$/): [level, rest], rest = -1 for no match
headingMatch(line) ==
  LET h == runEnd(line, 0, Hashes)
  IN  [level |-> h,
       rest |-> IF h \in 1..3 THEN restAfterSpaces(line, h) ELSE -1]

\* line.match(/^>\s?(.*)$/): the offset where group (.*) starts, or -1
quoteMatch(line) ==
  IF charAt(line, 0) # ">" THEN -1
  ELSE IF IsSpace(charAt(line, 1)) /\ NoTerminator(line, 2) THEN 2
  ELSE IF NoTerminator(line, 1) THEN 1
  ELSE -1

\* line.match(/^(\s*)[-*bullet]\s+(.+)$/): the offset where (.+) starts, or -1
ulMatch(line) ==
  LET b == skipSpaces(line, 0)
  IN  IF charAt(line, b) \in {"-", "*", BULLET}
      THEN restAfterSpaces(line, b + 1) ELSE -1

\* line.match(/^(\s*)\d+[.)]\s+(.+)$/): the offset where (.+) starts, or -1
olMatch(line) ==
  LET b == skipSpaces(line, 0)
      d == runEnd(line, b, Digits)
  IN  IF d > b /\ charAt(line, d) \in {".", ")"}
      THEN restAfterSpaces(line, d + 1) ELSE -1

\* a blank line that always pushes its newline token
pushesNewlineAlways(toks) == TRUE

\* tokens.length === 0 || tokens[tokens.length - 1].type !== "newline"
pushesNewline(toks) == Len(toks) = 0 \/ toks[Len(toks)].type # "newline"

\* a line index that is not advanced
nextLineStay(i) == i

\* i++ on the line index
nextLine(i) == i + 1

\* one iteration of the while loop of parseMarkdown at line index i: the line
\* index and the tokens after it
mdStep(lines, i, toks) ==
    LET line == lines[i]
        trimmed == trim(line)
        rest(a) == substring(line, a, Len(line))
        \* fenced code block (lines 72-88)
        codeEnd == Min({k \in (i + 1)..(Len(lines) + 1) :
                          k = Len(lines) + 1 \/ fenceClose(lines[k])})
        \* display math (lines 91-113)
        mathEnd == Min({k \in (i + 1)..(Len(lines) + 1) :
                          k = Len(lines) + 1 \/ IsSuffix(DOLLARS, trim(lines[k]))})
        mathMulti == ~IsSuffix(DOLLARS, trimmed) \/ trimmed = DOLLARS
        mathFirst == IF MatchesAt(line, 0, DOLLARS) THEN rest(2) ELSE line
        mathLines ==
          IF mathMulti
          THEN <<mathFirst>> \o SubSeq(lines, i + 1, mathEnd - 1)
                 \o (IF mathEnd <= Len(lines)
                     THEN <<stripClosingDollars(lines[mathEnd])>> ELSE <<>>)
          ELSE <<SubSeq(trimmed, 3, Len(trimmed) - 2)>>
        heading == headingMatch(line)
        quote == quoteMatch(line)
        ul == ulMatch(line)
        ol == olMatch(line)
    IN  IF fenceOpen(line) # -1
        THEN [i |-> nextLine(codeEnd), tokens |->
               Append(toks, [type |-> "code-block",
                             content |-> join(SubSeq(lines, i + 1, codeEnd - 1), NEWLINE),
                             language |-> substring(line, Len(FENCE), fenceOpen(line))])]
        ELSE IF MatchesAt(trimmed, 0, DOLLARS)
        THEN [i |-> nextLine(IF mathMulti THEN mathEnd ELSE i), tokens |->
               Append(toks, [type |-> "math-block",
                             content |-> trim(join(mathLines, NEWLINE))])]
        ELSE IF heading.rest # -1
        THEN [i |-> nextLine(i), tokens |->
               Append(toks, [type |-> "heading",
                             content |-> trim(rest(heading.rest)),
                             level |-> heading.level,
                             children |-> parseInlineSpans(trim(rest(heading.rest)))])]
        ELSE IF quote # -1
        THEN [i |-> nextLine(i), tokens |->
               Append(toks, [type |-> "blockquote",
                             content |-> rest(quote),
                             children |-> parseInlineSpans(rest(quote))])]
        ELSE IF ul # -1
        THEN [i |-> nextLine(i), tokens |->
               Append(toks, [type |-> "list-item",
                             content |-> rest(ul),
                             ordered |-> FALSE,
                             children |-> parseInlineSpans(rest(ul))])]
        ELSE IF ol # -1
        THEN [i |-> nextLine(i), tokens |->
               Append(toks, [type |-> "list-item",
                             content |-> rest(ol),
                             ordered |-> TRUE,
                             children |-> parseInlineSpans(rest(ol))])]
        ELSE IF trimmed = <<>>
        THEN [i |-> nextLine(i), tokens |->
               IF pushesNewline(toks)
               THEN Append(toks, [type |-> "newline", content |-> <<>>])
               ELSE toks]
        ELSE [i |-> nextLine(i), tokens |->
               Append(toks, [type |-> "text",
                             content |-> line,
                             children |-> parseInlineSpans(line)])]

\* the while loop of parseMarkdown: i is the line index
RECURSIVE mdLoop(_, _, _)
mdLoop(lines, i, toks) ==
  IF i > Len(lines) THEN toks
  ELSE LET s == mdStep(lines, i, toks) IN mdLoop(lines, s.i, s.tokens)

parseMarkdown(t) ==
  IF Len(t) = 0 THEN <<>> ELSE mdLoop(splitLines(t, 0, <<>>), 1, <<>>)

----------------------------------------------------------------------------
(* parseMarkdown applied to documents drawn from a small set.  A line is a *)
(* sequence of atoms: a marked span, or plain text.                        *)

\* the marker that stands on both sides of a span of the given type
Marker(type) ==
  CASE type = "math-inline" -> DOLLAR
    [] type = "code-inline" -> TICK
    [] type = "bold-italic" -> STARS3
    [] type = "bold" -> STARS2
    [] type = "italic" -> STAR
    [] type = "text" -> <<>>

\* the text an atom stands for
AtomText(a) == Marker(a.type) \o a.content \o Marker(a.type)

RECURSIVE LineText(_)
LineText(line) ==
  IF Len(line) = 0 THEN <<>> ELSE AtomText(line[1]) \o LineText(Tail(line))

X == <<"x">>
Y == <<"y">>
Z == <<"z">>
JS == <<"j","s">>

\* "***x*** **y** *z*"
L_EXAMPLE ==
  <<Span("bold-italic", X), Span("text", BLANK), Span("bold", Y),
    Span("text", BLANK), Span("italic", Z)>>
\* spans that touch: "**y***z****x***"
L_ADJACENT == <<Span("bold", Y), Span("italic", Z), Span("bold-italic", X)>>
\* markers inside math and inside code: "$*z*$ x" and the code span of "**y**"
L_MATH_CODE ==
  <<Span("math-inline", STAR \o Z \o STAR), Span("text", BLANK \o X),
    Span("code-inline", STARS2 \o Y \o STARS2)>>
L_BLANK == <<>>
\* a fence with a language, and a bare fence
L_FENCE_JS == <<Span("text", FENCE \o JS)>>
L_FENCE == <<Span("text", FENCE)>>
L_HEADING == <<Span("text", <<"#","#"," ">>), Span("bold", Y)>>
L_ITEM == <<Span("text", <<"-"," ">>), Span("italic", Z)>>
L_DOLLARS == <<Span("text", DOLLARS)>>
\* "hello world"
HELLO_WORLD == <<"h","e","l","l","o"," ","w","o","r","l","d">>
L_PLAIN == <<Span("text", HELLO_WORLD)>>
\* markers without a partner: "**y $"
L_UNMATCHED == <<Span("text", STARS2 \o Y \o BLANK \o DOLLAR)>>
\* a line of white space
L_SPACES == <<Span("text", BLANK)>>

\* the lines inline spans are parsed from as paragraphs
InlineLines == {L_EXAMPLE, L_ADJACENT, L_MATH_CODE, L_PLAIN, L_UNMATCHED}
\* the paragraph lines in which no marker pair matches
PlainLines == {L_PLAIN, L_UNMATCHED}
BlankLines == {L_BLANK, L_SPACES}
FenceOpenLines == {L_FENCE_JS, L_FENCE}
FenceCloseLines == {L_FENCE}

MdLineSet ==
  {L_EXAMPLE, L_ADJACENT, L_MATH_CODE, L_BLANK, L_FENCE_JS, L_FENCE,
   L_HEADING, L_ITEM, L_DOLLARS, L_PLAIN, L_UNMATCHED, L_SPACES}

Documents == UNION {[1..n -> MdLineSet] : n \in 0..MaxLines}

\* the text of the document: its lines joined by newlines
DocumentText == join([k \in 1..Len(mdLines) |-> LineText(mdLines[k])], NEWLINE)

\* what tokens holds before parseMarkdown returns
NotParsed == <<[type |-> "not parsed"]>>

\* text.split("\n") of the document
DocumentLines == splitLines(DocumentText, 0, <<>>)

InitMarkdown ==
  /\ mdLines \in Documents
  /\ tokens = NotParsed
  /\ mdI = 0
  /\ mdPrevI = 0
  /\ mdTokens = <<>>
  /\ PromptIdle /\ TitleIdle /\ ServicesIdle
  /\ ThinkingIdle /\ SanitizerIdle /\ ChatIdle

\* parseMarkdown(text) is called: an empty text returns [] at once (line 63),
\* any other text enters the loop at its first line
ParseMarkdownCall ==
  /\ tokens = NotParsed
  /\ mdI = 0
  /\ IF Len(DocumentText) = 0
     THEN tokens' = <<>> /\ UNCHANGED <<mdI, mdPrevI, mdTokens>>
     ELSE mdI' = 1 /\ UNCHANGED <<tokens, mdPrevI, mdTokens>>
  /\ UNCHANGED <<mdLines, promptVars, titleVars, svcVars>>
  /\ UNCHANGED <<thinkVars, sanVars, chatVars>>

\* one iteration of while (i < lines.length)
ParseMarkdownStep ==
  /\ tokens = NotParsed
  /\ mdI \in 1..Len(DocumentLines)
  /\ LET s == mdStep(DocumentLines, mdI, mdTokens)
     IN  /\ mdI' = s.i
         /\ mdTokens' = s.tokens
  /\ mdPrevI' = mdI
  /\ UNCHANGED <<mdLines, tokens, promptVars, titleVars, svcVars>>
  /\ UNCHANGED <<thinkVars, sanVars, chatVars>>

\* the loop is left and parseMarkdown returns its tokens (line 185)
ParseMarkdownReturn ==
  /\ tokens = NotParsed
  /\ mdI > Len(DocumentLines)
  /\ tokens' = mdTokens
  /\ UNCHANGED <<mdLines, mdI, mdPrevI, mdTokens, promptVars, titleVars, svcVars>>
  /\ UNCHANGED <<thinkVars, sanVars, chatVars>>

NextMarkdown ==
  \/ ParseMarkdownCall
  \/ ParseMarkdownStep
  \/ ParseMarkdownReturn

SpecMarkdown == InitMarkdown /\ [][NextMarkdown]_vars

----------------------------------------------------------------------------
(* Properties of the Markdown parser *)

\* the lines up to line k are paragraphs: token k is the token of line k
ParagraphsUpTo(k) == \A j \in 1..k : mdLines[j] \in InlineLines

NonText(spans) == SelectSeq(spans, LAMBDA sp : sp.type # "text")

\* C17: parseInlineSpans applies the precedence inline math > inline code >
\* bold-italic > bold > italic, the leftmost match winning: the marked spans
\* of a line come out in their order with their types and their contents,
\* markers removed; "***x*** **y** *z*" yields exactly the three spans
\* bold-italic "x", bold "y", italic "z".
C17_InlinePrecedence ==
  tokens # NotParsed =>
    \A k \in 1..Len(mdLines) :
      ParagraphsUpTo(k) =>
        /\ tokens[k].type = "text"
        /\ NonText(tokens[k].children) = NonText(mdLines[k])
        /\ mdLines[k] = L_EXAMPLE =>
             /\ tokens[k].children = L_EXAMPLE
             /\ NonText(tokens[k].children)
                  = <<Span("bold-italic", X), Span("bold", Y), Span("italic", Z)>>

C17_Witness ==
  /\ mdLines = <<L_ADJACENT, L_EXAMPLE>>
  /\ tokens # NotParsed
  /\ Len(tokens) = 2
  /\ tokens[2].children
       = <<Span("bold-italic", X), Span("text", BLANK), Span("bold", Y),
           Span("text", BLANK), Span("italic", Z)>>

\* the index of the first fence-close line after line o, or one past the end
FirstCloseAfter(o) ==
  Min({k \in (o + 1)..(Len(mdLines) + 1) :
         k = Len(mdLines) + 1 \/ mdLines[k] \in FenceCloseLines})

\* C18: a fence-open line starts verbatim capture: the lines after it up to
\* the first fence-close line, or up to the end of the input when there is
\* none, are the content of one code-block token, joined by newlines and
\* unchanged, with the language kept and no inline spans parsed; the token
\* after it is the one of the line after the closing fence.
C18_FencedCodeVerbatim ==
  tokens # NotParsed =>
    \A o \in 1..Len(mdLines) :
      (mdLines[o] \in FenceOpenLines /\ ParagraphsUpTo(o - 1)) =>
        /\ Len(tokens) >= o
        /\ tokens[o] =
             [type |-> "code-block",
              content |-> join([k \in 1..(FirstCloseAfter(o) - o - 1) |->
                                  LineText(mdLines[o + k])], NEWLINE),
              language |-> IF mdLines[o] = L_FENCE_JS THEN JS ELSE <<>>]
        /\ FirstCloseAfter(o) >= Len(mdLines) => Len(tokens) = o

C18_Witness ==
  /\ mdLines = <<L_FENCE_JS, L_EXAMPLE, L_FENCE_JS>>
  /\ tokens = <<[type |-> "code-block",
                 content |-> LineText(L_EXAMPLE) \o NEWLINE \o FENCE \o JS,
                 language |-> JS]>>

\* C22: the spans of a line are in source order and cover it: every token
\* that has inline children is reproduced by writing each child back with
\* its own markers, a paragraph token holds its whole line, a line in which
\* no marker pair matches yields the single text span of the whole line, and
\* parseMarkdown("hello world") is one text token with the single span
\* "hello world".
C22_SpansCoverLine ==
  tokens # NotParsed =>
    /\ \A k \in 1..Len(tokens) :
         "children" \in DOMAIN tokens[k] =>
           /\ LineText(tokens[k].children) = tokens[k].content
           /\ tokens[k].content # <<>> => Len(tokens[k].children) >= 1
    /\ \A k \in 1..Len(mdLines) :
         ParagraphsUpTo(k) =>
           /\ tokens[k].content = LineText(mdLines[k])
           /\ mdLines[k] \in PlainLines => tokens[k].children = mdLines[k]
    /\ mdLines = <<L_PLAIN>> =>
         tokens = <<[type |-> "text", content |-> HELLO_WORLD,
                     children |-> <<[type |-> "text", content |-> HELLO_WORLD]>>]>>

C22_Witness ==
  /\ mdLines = <<L_UNMATCHED, L_MATH_CODE, L_HEADING>>
  /\ tokens # NotParsed
  /\ Len(tokens) = 3
  /\ tokens[1].children = L_UNMATCHED
  /\ Len(tokens[2].children) = 3
  /\ tokens[3].children = <<Span("bold", Y)>>

\* C23: parseMarkdown scans forward only and terminates: every iteration of
\* the block loop leaves the line index greater than it found it, the index
\* never passes the end of the lines by more than the skipped closing
\* delimiter, the iterations read consecutive ranges of lines and push at
\* most one token each, so the tokens never outnumber the lines consumed,
\* and the tokens returned never outnumber the input lines.
C23_ForwardScan ==
  /\ mdI > 0 =>
       /\ mdPrevI < mdI
       /\ mdI <= Len(DocumentLines) + 2
       /\ Len(mdTokens) <= mdI - 1
       /\ Len(mdTokens) <= Len(DocumentLines)
  /\ tokens # NotParsed => Len(tokens) <= Len(DocumentLines)

C23_Witness ==
  /\ mdLines = <<L_SPACES, L_FENCE_JS, L_EXAMPLE>>
  /\ mdPrevI = 2
  /\ mdI = 5
  /\ Len(tokens) = 2
  /\ tokens[2].type = "code-block"

\* C24: no two adjacent tokens are both newline tokens, while the loop runs
\* and in what parseMarkdown returns: a run of blank lines emits at most one.
C24_NoAdjacentNewlines ==
  /\ \A k \in 1..(Len(mdTokens) - 1) :
       ~(mdTokens[k].type = "newline" /\ mdTokens[k + 1].type = "newline")
  /\ tokens # NotParsed =>
       \A k \in 1..(Len(tokens) - 1) :
         ~(tokens[k].type = "newline" /\ tokens[k + 1].type = "newline")

C24_Witness ==
  /\ mdLines = <<L_BLANK, L_SPACES, L_PLAIN>>
  /\ tokens # NotParsed
  /\ Len(tokens) = 2
  /\ tokens[1].type = "newline"
  /\ tokens[2].type = "text"

----------------------------------------------------------------------------
(* autoGenerateTitle, started without being awaited after every exchange   *)
(* that useLLMChat saved.  A run is split at its awaits: getConversation,  *)
(* getMessages, generateChatTitle and updateConversationTitle.             *)

MY_CHAT == <<"M","y"," ","C","h","a","t">>

\* a title the user gave the conversation
CUSTOM_TITLE == <<"T","r","i","p">>

\* the titles autoGenerateTitle takes for "no title yet" (lines 149-150)
DefaultTitles == {NEW_CHAT, MY_CHAT}

\* what the user wrote in an exchange
ExchangeContents == {HEY, SORT_A_LIST}

\* the values the promise of generateChatTitle(msgs) may resolve to: the
\* sentinel, the fallback title, or an accepted title of the model runtime
generateChatTitleResults(msgs) ==
  IF Len(msgs) = 0 \/ findSubstantiveUserMessage(msgs) = 0
  THEN {NEW_CHAT}
  ELSE {generateFallbackTitle(msgs)}
         \cup {cleanTitle(c) : c \in {d \in TitleCandidates : validTitle(cleanTitle(d))}}

InitAutoTitle ==
  /\ convTitle \in DefaultTitles \cup {CUSTOM_TITLE}
  /\ convMessages = <<>>
  /\ runPc = [r \in Runs |-> "idle"]
  /\ runMessages = [r \in Runs |-> <<>>]
  /\ runTitle = [r \in Runs |-> <<>>]
  /\ DownloadIdle /\ RegistryIdle
  /\ PromptIdle /\ TitleIdle /\ MarkdownIdle
  /\ ThinkingIdle /\ SanitizerIdle /\ ChatIdle

AutoTitleOthersUnchanged ==
  UNCHANGED <<dlVars, regVars, promptVars, titleVars, mdVars, thinkVars,
              sanVars, chatVars>>

\* useLLMChat saved the user message and the assistant message of an
\* exchange and calls autoGenerateTitle(conversationId) without awaiting it
\* (useLLMChat.ts lines 109, 174-187); the run goes to its first await
AutoGenerateTitle(r, content) ==
  /\ runPc[r] = "idle"
  /\ \A q \in Runs : q < r => runPc[q] # "idle"
  /\ convMessages' = convMessages
       \o <<Message("user", content, <<>>, <<>>),
            Message("assistant", HELLO, <<>>, <<>>)>>
  /\ runPc' = [runPc EXCEPT ![r] = "getConversation"]
  /\ UNCHANGED <<convTitle, runMessages, runTitle>>
  /\ AutoTitleOthersUnchanged

\* getConversation resolves: the title check of lines 147-153
GetConversation(r) ==
  /\ runPc[r] = "getConversation"
  /\ runPc' = [runPc EXCEPT ![r] =
                 IF convTitle \notin DefaultTitles THEN "returned"
                 ELSE "getMessages"]
  /\ UNCHANGED <<convTitle, convMessages, runMessages, runTitle>>
  /\ AutoTitleOthersUnchanged

\* getMessages resolves: the checks of lines 155-168, then generateChatTitle
GetMessages(r) ==
  /\ runPc[r] = "getMessages"
  /\ runMessages' = [runMessages EXCEPT ![r] = convMessages]
  /\ runPc' = [runPc EXCEPT ![r] =
                 IF Len(convMessages) < 2
                      \/ findSubstantiveUserMessage(convMessages) = 0
                 THEN "returned"
                 ELSE "generateChatTitle"]
  /\ UNCHANGED <<convTitle, convMessages, runTitle>>
  /\ AutoTitleOthersUnchanged

\* generateChatTitle resolves to title (lines 170-171)
ChatTitleGenerated(r, title) ==
  /\ runPc[r] = "generateChatTitle"
  /\ title \in generateChatTitleResults(runMessages[r])
  /\ runTitle' = [runTitle EXCEPT ![r] = title]
  /\ runPc' = [runPc EXCEPT ![r] =
                 IF title = NEW_CHAT THEN "returned"
                 ELSE "updateConversationTitle"]
  /\ UNCHANGED <<convTitle, convMessages, runMessages>>
  /\ AutoTitleOthersUnchanged

\* UPDATE conversations SET title = ? WHERE id = ? (schema.ts lines 134-149)
updateConversationTitle(stored, title) == title

\* the UPDATE of line 173 runs and the run returns
UpdateConversationTitle(r) ==
  /\ runPc[r] = "updateConversationTitle"
  /\ convTitle' = updateConversationTitle(convTitle, runTitle[r])
  /\ runPc' = [runPc EXCEPT ![r] = "saved"]
  /\ UNCHANGED <<convMessages, runMessages, runTitle>>
  /\ AutoTitleOthersUnchanged

\* an await of the database rejects: the catch block of lines 178-182
AutoTitleFails(r) ==
  /\ runPc[r] \in {"getConversation", "getMessages", "updateConversationTitle"}
  /\ runPc' = [runPc EXCEPT ![r] = "failed"]
  /\ UNCHANGED <<convTitle, convMessages, runMessages, runTitle>>
  /\ AutoTitleOthersUnchanged

NextAutoTitle ==
  \/ \E r \in Runs, content \in ExchangeContents : AutoGenerateTitle(r, content)
  \/ \E r \in Runs : GetConversation(r)
  \/ \E r \in Runs : GetMessages(r)
  \/ \E r \in Runs : \E title \in generateChatTitleResults(runMessages[r]) :
       ChatTitleGenerated(r, title)
  \/ \E r \in Runs : UpdateConversationTitle(r)
  \/ \E r \in Runs : AutoTitleFails(r)

SpecAutoTitle == InitAutoTitle /\ [][NextAutoTitle]_vars

\* C26: autoGenerateTitle never overwrites a custom title: in every
\* interleaving of runs for one conversation updateConversationTitle is
\* applied only while the stored title is still "New Chat" or "My Chat", so
\* a title is auto-generated at most once.
C26_CustomTitleKept ==
  [][\A r \in Runs :
       (runPc[r] = "updateConversationTitle" /\ runPc'[r] = "saved")
         => convTitle \in DefaultTitles]_vars

----------------------------------------------------------------------------
(* ModelDownloadService: the Map downloadHandles under overlapping calls   *)
(* of downloadModel, cancelDownload and cancelAllDownloads.  A call is     *)
(* split at its awaits.  A handle is named by the call that created it.    *)

\* this.downloadHandles.set(modelId, handle)
handlesSet(handles, modelId, handle) == [handles EXCEPT ![modelId] = handle]

\* this.downloadHandles.delete(modelId)
handlesDelete(handles, modelId) == [handles EXCEPT ![modelId] = 0]

\* this.downloadHandles.has(modelId)
isDownloading(modelId) == downloadHandles[modelId] # 0

\* Array.from(this.downloadHandles.keys()), in some order of the ids
getActiveDownloads(order) ==
  SelectSeq(order, LAMBDA m : downloadHandles[m] # 0)

\* the orders in which a Map may hold the model ids
IdOrders ==
  {o \in [1..Cardinality(ModelIds) -> ModelIds] :
     \A i, j \in 1..Cardinality(ModelIds) : i # j => o[i] # o[j]}

\* model.url is set: the DEFAULT_MODELS have one (part_007 lines 7, 21), a
\* model imported by addModelFromFile has none (ModelRegistry.ts lines 213-225)
hasUrl(modelId) == modelId # CUSTOM_MODEL_ID

InitDownload ==
  /\ DownloadIdle
  /\ AutoTitleIdle /\ RegistryIdle
  /\ PromptIdle /\ TitleIdle /\ MarkdownIdle
  /\ ThinkingIdle /\ SanitizerIdle /\ ChatIdle

DownloadOthersUnchanged ==
  UNCHANGED <<autoVars, regVars, promptVars, titleVars, mdVars, thinkVars,
              sanVars, chatVars>>

CancelUnchanged ==
  UNCHANGED <<cancelPc, cancelModel, cancelHandle, cancelAllPc, cancelAllIds,
              cancelAllHandle>>

\* downloadModel(model, ...) is called (lines 117-137): without a URL it
\* throws into its catch block, which deletes the entry of model.id (line
\* 185); with one it awaits deleteModelFile
DownloadModel(c, modelId) ==
  /\ dlPc[c] = "idle"
  /\ \A q \in DlCalls : q < c => dlPc[q] # "idle"
  /\ dlModel' = [dlModel EXCEPT ![c] = modelId]
  /\ IF hasUrl(modelId)
     THEN /\ dlPc' = [dlPc EXCEPT ![c] = "deleteModelFile"]
          /\ UNCHANGED downloadHandles
     ELSE /\ dlPc' = [dlPc EXCEPT ![c] = "failed"]
          /\ downloadHandles' = handlesDelete(downloadHandles, modelId)
  /\ UNCHANGED dlCancelled
  /\ CancelUnchanged
  /\ DownloadOthersUnchanged

\* deleteModelFile resolves: the handle is created and stored, and the
\* download is started (lines 140-158)
StoreHandle(c) ==
  /\ dlPc[c] = "deleteModelFile"
  /\ downloadHandles' = handlesSet(downloadHandles, dlModel[c], c)
  /\ dlPc' = [dlPc EXCEPT ![c] = "downloadAsync"]
  /\ UNCHANGED <<dlModel, dlCancelled>>
  /\ CancelUnchanged
  /\ DownloadOthersUnchanged

\* downloadAsync settles (lines 158-165): with a file the call goes on to
\* verify it; rejected, or resolved without a file as after a cancel, it
\* ends in the catch block.  Both ways delete the entry of model.id.
DownloadSettles(c, hasFile) ==
  /\ dlPc[c] = "downloadAsync"
  /\ dlCancelled[c] => ~hasFile
  /\ downloadHandles' = handlesDelete(downloadHandles, dlModel[c])
  /\ dlPc' = [dlPc EXCEPT ![c] = IF hasFile THEN "getInfoAsync" ELSE "failed"]
  /\ UNCHANGED <<dlModel, dlCancelled>>
  /\ CancelUnchanged
  /\ DownloadOthersUnchanged

\* getInfoAsync settles (lines 168-198): the file exists and onComplete is
\* called, or the catch block deletes the entry of model.id once more
FileVerified(c, exists) ==
  /\ dlPc[c] = "getInfoAsync"
  /\ IF exists
     THEN /\ dlPc' = [dlPc EXCEPT ![c] = "completed"]
          /\ UNCHANGED downloadHandles
     ELSE /\ dlPc' = [dlPc EXCEPT ![c] = "failed"]
          /\ downloadHandles' = handlesDelete(downloadHandles, dlModel[c])
  /\ UNCHANGED <<dlModel, dlCancelled>>
  /\ CancelUnchanged
  /\ DownloadOthersUnchanged

\* cancelDownload(modelId, fileName) is called (lines 216-221): with a
\* handle stored it awaits handle.cancelAsync()
CancelDownload(modelId) ==
  /\ cancelPc = "idle"
  /\ cancelAllPc = "idle"
  /\ cancelModel' = modelId
  /\ cancelHandle' = downloadHandles[modelId]
  /\ cancelPc' = IF downloadHandles[modelId] # 0 THEN "cancelAsync" ELSE "idle"
  /\ UNCHANGED <<downloadHandles, dlPc, dlModel, dlCancelled, cancelAllPc,
                 cancelAllIds, cancelAllHandle>>
  /\ DownloadOthersUnchanged

\* cancelAsync settles: the download of the handle, if still running, is
\* cancelled, and the entry of modelId is deleted (lines 221-226)
CancelSettles ==
  /\ cancelPc = "cancelAsync"
  /\ dlCancelled' = [dlCancelled EXCEPT ![cancelHandle] = TRUE]
  /\ downloadHandles' = handlesDelete(downloadHandles, cancelModel)
  /\ cancelPc' = "idle"
  /\ UNCHANGED <<dlPc, dlModel, cancelModel, cancelHandle, cancelAllPc,
                 cancelAllIds, cancelAllHandle>>
  /\ DownloadOthersUnchanged

\* cancelAllDownloads() is called (lines 292-295): the ids are listed; with
\* none the loop is skipped and the Map is cleared at once (line 308)
CancelAllDownloads(order) ==
  /\ cancelAllPc = "idle"
  /\ cancelPc = "idle"
  /\ cancelAllIds' = getActiveDownloads(order)
  /\ cancelAllPc' = IF getActiveDownloads(order) = <<>> THEN "idle" ELSE "loop"
  /\ UNCHANGED <<downloadHandles, dlPc, dlModel, dlCancelled, cancelPc,
                 cancelModel, cancelHandle, cancelAllHandle>>
  /\ DownloadOthersUnchanged

\* the loop takes the next id (lines 297-299): with a handle stored it
\* awaits handle.cancelAsync(), without one it goes on
CancelAllNext ==
  /\ cancelAllPc = "loop"
  /\ cancelAllIds # <<>>
  /\ LET handle == downloadHandles[Head(cancelAllIds)]
     IN  IF handle # 0
         THEN /\ cancelAllHandle' = handle
              /\ cancelAllPc' = "cancelAsync"
              /\ UNCHANGED cancelAllIds
         ELSE /\ cancelAllIds' = Tail(cancelAllIds)
              /\ UNCHANGED <<cancelAllHandle, cancelAllPc>>
  /\ UNCHANGED <<downloadHandles, dlPc, dlModel, dlCancelled, cancelPc,
                 cancelModel, cancelHandle>>
  /\ DownloadOthersUnchanged

\* cancelAsync of the loop settles (lines 300-304)
CancelAllSettles ==
  /\ cancelAllPc = "cancelAsync"
  /\ dlCancelled' = [dlCancelled EXCEPT ![cancelAllHandle] = TRUE]
  /\ cancelAllIds' = Tail(cancelAllIds)
  /\ cancelAllPc' = "loop"
  /\ UNCHANGED <<downloadHandles, dlPc, dlModel, cancelPc, cancelModel,
                 cancelHandle, cancelAllHandle>>
  /\ DownloadOthersUnchanged

\* the loop is over: this.downloadHandles.clear() (line 308)
CancelAllClear ==
  /\ cancelAllPc = "loop"
  /\ cancelAllIds = <<>>
  /\ downloadHandles' = [m \in ModelIds |-> 0]
  /\ cancelAllPc' = "idle"
  /\ UNCHANGED <<dlPc, dlModel, dlCancelled, cancelPc, cancelModel,
                 cancelHandle, cancelAllIds, cancelAllHandle>>
  /\ DownloadOthersUnchanged

NextDownload ==
  \/ \E c \in DlCalls, modelId \in ModelIds : DownloadModel(c, modelId)
  \/ \E c \in DlCalls : StoreHandle(c)
  \/ \E c \in DlCalls, hasFile \in BOOLEAN : DownloadSettles(c, hasFile)
  \/ \E c \in DlCalls, exists \in BOOLEAN : FileVerified(c, exists)
  \/ \E modelId \in ModelIds : CancelDownload(modelId)
  \/ CancelSettles
  \/ \E order \in IdOrders : CancelAllDownloads(order)
  \/ CancelAllNext
  \/ CancelAllSettles
  \/ CancelAllClear

SpecDownload == InitDownload /\ [][NextDownload]_vars

\* a downloadModel call for modelId is in flight: its handle is stored and
\* its download has not finished, failed or been cancelled
InFlight(modelId) ==
  \E c \in DlCalls :
    dlModel[c] = modelId /\ dlPc[c] = "downloadAsync" /\ ~dlCancelled[c]

\* C27: isDownloading(modelId) is true exactly while a downloadModel call
\* for that model is in flight, from storing its handle until its download
\* finishes, fails or is cancelled, in every interleaving of downloadModel,
\* cancelDownload and cancelAllDownloads, two overlapping downloadModel
\* calls for one model id included.
C27_IsDownloadingExact ==
  \A modelId \in ModelIds : isDownloading(modelId) <=> InFlight(modelId)

----------------------------------------------------------------------------
(* ModelRegistry over the models table.  An operation is split at its      *)
(* awaits, one step per SQL statement; the read an operation starts with   *)
(* is taken with its call.  Operations run in the slots RegOps, so up to    *)
(* MaxRegOps of them overlap, and a slot is used again after its operation *)
(* returned.                                                               *)

\* the statuses handed to updateModelStatus: one that lets setActiveModel
\* through and one that does not, of the four of schema.ts line 32
StatusInputs == {"downloaded", "error"}

Row(isActive, status) == [exists |-> TRUE, isActive |-> isActive, status |-> status]

\* the ids of the rows with is_active = 1
ActiveIds(rows) == {id \in ModelIds : rows[id].exists /\ rows[id].isActive}

\* the table without the unique index
idx_active_model_dropped(rows) == TRUE

\* CREATE UNIQUE INDEX idx_active_model ON models(is_active) WHERE
\* is_active = 1: the rows the index accepts
idx_active_model(rows) == Cardinality(ActiveIds(rows)) <= 1

\* INSERT OR REPLACE INTO models ... (addModel, schema.ts lines 183-210)
addModel(rows, id, isActive, status) == [rows EXCEPT ![id] = Row(isActive, status)]

\* UPDATE models SET is_active = 0
deactivateAll(rows) ==
  [id \in ModelIds |-> IF rows[id].exists THEN [rows[id] EXCEPT !.isActive = FALSE]
                       ELSE rows[id]]

\* UPDATE models SET is_active = 1 WHERE id = ?
activate(rows, modelId) ==
  IF rows[modelId].exists THEN [rows EXCEPT ![modelId].isActive = TRUE] ELSE rows

\* UPDATE models SET status = ? WHERE id = ?
updateStatus(rows, modelId, status) ==
  IF rows[modelId].exists THEN [rows EXCEPT ![modelId].status = status] ELSE rows

\* DELETE FROM models WHERE id = ?
deleteRow(rows, modelId) == [rows EXCEPT ![modelId] = NoRow]

\* the DEFAULT_MODELS that existingModels does not hold (lines 35-38)
missingDefaults(rows) == SelectSeq(DEFAULT_MODEL_IDS, LAMBDA d : ~rows[d].exists)

InitRegistry ==
  /\ RegistryIdle
  /\ AutoTitleIdle /\ DownloadIdle
  /\ PromptIdle /\ TitleIdle /\ MarkdownIdle
  /\ ThinkingIdle /\ SanitizerIdle /\ ChatIdle

RegistryOthersUnchanged ==
  UNCHANGED <<autoVars, dlVars, promptVars, titleVars, mdVars, thinkVars,
              sanVars, chatVars>>

\* operation o runs a statement: every other operation under way has been
\* overlapped; an operation that starts has not been yet
Overlaps(o) ==
  [p \in RegOps |->
     IF p = o THEN (IF regPc[o] = "idle" THEN FALSE ELSE regOverlap[o])
     ELSE IF regPc[p] # "idle" THEN TRUE ELSE regOverlap[p]]

Args(name, id, status, todo) ==
  [name |-> name, id |-> id, status |-> status, todo |-> todo]

\* operation o goes on to its next statement
Goes(o, where) ==
  /\ regPc' = [regPc EXCEPT ![o] = where]
  /\ regOverlap' = Overlaps(o)
  /\ UNCHANGED regResult

\* operation o is called: a slot is taken when the slots before it are busy
Called(o) == regPc[o] = "idle" /\ \A q \in RegOps : q < o => regPc[q] # "idle"

\* operation o returns ("ok") or throws ("error"); its locals are gone
Returns(o, outcome) ==
  /\ regPc' = [regPc EXCEPT ![o] = "idle"]
  /\ regResult' = [regResult EXCEPT ![o] =
                     Result(outcome,
                            IF regPc[o] = "activate" /\ outcome = "ok"
                            THEN regArgs[o].id ELSE "none")]
  /\ regArgs' = [regArgs EXCEPT ![o] = NoArgs]
  /\ regOverlap' = Overlaps(o)

\* operation o is under way with its locals
Starts(o, args, where) ==
  /\ regArgs' = [regArgs EXCEPT ![o] = args]
  /\ Goes(o, where)

\* initialize() reads the models (lines 27-36): with every default model in
\* place it returns, else it goes on to add the missing ones
Initialize(o) ==
  /\ Called(o)
  /\ IF missingDefaults(regModels) = <<>>
     THEN Returns(o, "ok")
     ELSE Starts(o, Args("initialize", "none", "available", missingDefaults(regModels)),
                 "initialize")
  /\ UNCHANGED regModels
  /\ RegistryOthersUnchanged

\* the loop of initialize adds the next missing default model (lines 38-59)
InitializeAddModel(o) ==
  /\ regPc[o] = "initialize"
  /\ regModels' = addModel(regModels, Head(regArgs[o].todo), FALSE, "available")
  /\ IF Tail(regArgs[o].todo) = <<>>
     THEN Returns(o, "ok")
     ELSE Starts(o, [regArgs[o] EXCEPT !.todo = Tail(regArgs[o].todo)], "initialize")
  /\ RegistryOthersUnchanged

\* addCustomModelFromUrl (lines 126-161) and addModelFromFile (lines
\* 187-225) look the generated id up: an existing model is returned as it
\* is, else the row is built with isActive false and the given status
AddCustomModelFromUrl(o) ==
  /\ Called(o)
  /\ IF regModels[CUSTOM_MODEL_ID].exists
     THEN Returns(o, "ok")
     ELSE Starts(o, Args("addCustomModelFromUrl", CUSTOM_MODEL_ID, "available", <<>>),
                 "addModel")
  /\ UNCHANGED regModels
  /\ RegistryOthersUnchanged

AddModelFromFile(o) ==
  /\ Called(o)
  /\ IF regModels[CUSTOM_MODEL_ID].exists
     THEN Returns(o, "ok")
     ELSE Starts(o, Args("addModelFromFile", CUSTOM_MODEL_ID, "downloaded", <<>>),
                 "addModel")
  /\ UNCHANGED regModels
  /\ RegistryOthersUnchanged

\* await databaseService.addModel(modelInfo) (lines 163, 227)
AddModel(o) ==
  /\ regPc[o] = "addModel"
  /\ regModels' = addModel(regModels, regArgs[o].id, FALSE, regArgs[o].status)
  /\ Goes(o, "getModel")
  /\ UNCHANGED regArgs
  /\ RegistryOthersUnchanged

\* the created model is read back (lines 168-173, 232-237)
GetCreatedModel(o) ==
  /\ regPc[o] = "getModel"
  /\ Returns(o, IF regModels[regArgs[o].id].exists THEN "ok" ELSE "error")
  /\ UNCHANGED regModels
  /\ RegistryOthersUnchanged

\* setActiveModel(modelId) reads the model (lines 97-109): it throws unless
\* the model exists and is downloaded
SetActiveModel(o, modelId) ==
  /\ Called(o)
  /\ IF regModels[modelId].exists /\ regModels[modelId].status = "downloaded"
     THEN Starts(o, Args("setActiveModel", modelId, "none", <<>>), "deactivate")
     ELSE Returns(o, "error")
  /\ UNCHANGED regModels
  /\ RegistryOthersUnchanged

\* databaseService.setActiveModel: the first UPDATE (schema.ts line 272)
DeactivateAll(o) ==
  /\ regPc[o] = "deactivate"
  /\ regModels' = deactivateAll(regModels)
  /\ Goes(o, "activate")
  /\ UNCHANGED regArgs
  /\ RegistryOthersUnchanged

\* the second UPDATE (schema.ts lines 275-278): a second active row is
\* refused by the unique index, the statement changes nothing and throws
Activate(o) ==
  /\ regPc[o] = "activate"
  /\ IF idx_active_model(activate(regModels, regArgs[o].id))
     THEN /\ regModels' = activate(regModels, regArgs[o].id)
          /\ Returns(o, "ok")
     ELSE /\ UNCHANGED regModels
          /\ Returns(o, "error")
  /\ RegistryOthersUnchanged

\* updateModelStatus(modelId, status): one UPDATE (lines 251-258)
UpdateModelStatus(o, modelId, status) ==
  /\ Called(o)
  /\ regModels' = updateStatus(regModels, modelId, status)
  /\ Returns(o, "ok")
  /\ RegistryOthersUnchanged

\* deleteModel(modelId) reads the model (lines 272-283): it throws when the
\* model is missing or active
DeleteModel(o, modelId) ==
  /\ Called(o)
  /\ IF regModels[modelId].exists /\ ~regModels[modelId].isActive
     THEN Starts(o, Args("deleteModel", modelId, "none", <<>>), "deleteModel")
     ELSE Returns(o, "error")
  /\ UNCHANGED regModels
  /\ RegistryOthersUnchanged

\* await databaseService.deleteModel(modelId) (line 285)
DeleteRow(o) ==
  /\ regPc[o] = "deleteModel"
  /\ regModels' = deleteRow(regModels, regArgs[o].id)
  /\ Returns(o, "ok")
  /\ RegistryOthersUnchanged

NextRegistry ==
  \/ \E o \in RegOps : Initialize(o)
  \/ \E o \in RegOps : InitializeAddModel(o)
  \/ \E o \in RegOps : AddCustomModelFromUrl(o)
  \/ \E o \in RegOps : AddModelFromFile(o)
  \/ \E o \in RegOps : AddModel(o)
  \/ \E o \in RegOps : GetCreatedModel(o)
  \/ \E o \in RegOps, modelId \in ModelIds : SetActiveModel(o, modelId)
  \/ \E o \in RegOps : DeactivateAll(o)
  \/ \E o \in RegOps : Activate(o)
  \/ \E o \in RegOps, modelId \in ModelIds, status \in StatusInputs :
       UpdateModelStatus(o, modelId, status)
  \/ \E o \in RegOps, modelId \in ModelIds : DeleteModel(o, modelId)
  \/ \E o \in RegOps : DeleteRow(o)

SpecRegistry == InitRegistry /\ [][NextRegistry]_vars

\* C28: only one model can be active at a time: after any sequence of
\* registry operations (initialize, addCustomModelFromUrl, addModelFromFile,
\* setActiveModel, updateModelStatus, deleteModel) at most one model has
\* isActive set, and after a successful setActiveModel(id) the model id is
\* the only active one.  The first half is stated of every state, overlapping
\* operations included; the second of a setActiveModel that returns without
\* a statement of another operation between its own.
C28_SingleActiveModel ==
  /\ [](Cardinality(ActiveIds(regModels)) <= 1)
  /\ [][\A o \in RegOps :
          (/\ regPc[o] = "activate"
           /\ regPc'[o] = "idle"
           /\ regResult'[o].outcome = "ok"
           /\ ~regOverlap'[o])
            => ActiveIds(regModels') = {regArgs[o].id}]_vars

C28_Witness ==
  \E o \in RegOps :
    /\ regPc[o] = "idle"
    /\ regResult[o] = Result("ok", "gemma-3-1b-q4")
    /\ ~regOverlap[o]
    /\ ActiveIds(regModels) = {"gemma-3-1b-q4"}
    /\ \E other \in ModelIds \ {"gemma-3-1b-q4"} :
         regModels[other].exists /\ regModels[other].status = "downloaded"
====
